---- MODULE Spec2Model ----
(***************************************************************************)
(* A model of zygrader's submission locking (data/lock.py and the flows    *)
(* in grader.py, email_manager.py and zygrade.py that call it), of the     *)
(* score redistribution in admin.py and of the roster reconciler in        *)
(* grade_puller.py.                                                        *)
(*                                                                         *)
(* A file name is the sequence of its "."-separated segments, so           *)
(* "ta1.l1.s1.lock" is <<"ta1", "l1", "s1", "lock">>; name.split(".")[1:]  *)
(* is Tail.  Time is counted in minutes.                                   *)
(***************************************************************************)
EXTENDS Integers, Sequences, FiniteSets, TLC

VARIABLES
    lockDir,    \* the files of SharedData.get_locks_directory()
    lockLog,    \* the rows of locks_log.csv, in file order
    now,        \* datetime.now(), in minutes
    proc,       \* per grader process: where its current flow stands
    \* admin.py, _give_score_to_assignments
    sc_pc,              \* "off", "ready" (called) or "done" (returned)
    sc_names,           \* assignment_names
    sc_student,         \* student: assignment -> score
    sc_score,           \* score, the target fraction
    sc_points_out_of,   \* points_out_of: assignment -> points
    \* grade_puller.py, GradePuller.StudentMapping
    m_pc,                   \* where _create_mapping stands
    canvas_students,        \* gradebook rows by id_number
    zybook_students,        \* platform rows by id
    mapping,                \* gradebook id -> platform row
    unmatched_canvas_ids,
    unmatched_zybook_ids,
    m_todo,                 \* what the running for loop has yet to visit
    \* a call of StudentMapping.edit_distance
    ed_pc, ed_seq1, ed_seq2, ed_result,
    \* data/model.py, Submission.construct_submission
    sub_pc,
    response,               \* self.response: parts, score, max_score
    options,                \* self.lab.options
    flag,                   \* self.flag, the set of SubmissionFlag members
    files_directory,        \* the parts with a subdirectory of extracted files
    \* the operations that read the gradebook CSV
    canvas_master,          \* the file at SharedData.get_canvas_master()
    adm_pc, adm_op,         \* the running operation and where it stands
    written,                \* the operations that have written an output file
    \* read_canvas_csv and parse_completion_report, row by row
    rd_pc,                  \* which reader runs, or how it ended
    rd_rows,                \* the id column of the file's rows
    rd_i,                   \* the row the for loop is at
    rd_roster,              \* canvas_students / report: key -> row
    bad_id_count,
    \* admin.py, _apply_midterm_mercy on one row of the gradebook
    mm_pc,
    mm_student,             \* the student's row: assignment -> score
    mm_points_out_of,       \* puller.canvas_points_out_of
    \* admin.py, submission_search_fn
    ss_pc,                  \* "search", "sleep" (in time.sleep) or "done"
    ss_students,            \* len(students); the roster is 1..ss_students
    student_num,
    checks,                 \* the calls of check_student_submissions so far
    csv_log,                \* the rows written to the output file
    ss_clock,               \* seconds since the search began
    ss_timeouts,            \* connection errors met so far
    \* data/model.py, Submission.compile_and_run_code
    run_pc,                 \* "popup", or "wait" (in wait_on_child)
    running_process,        \* SharedData.running_process: None or a child
    RUNNING_CODE,           \* SharedData.RUNNING_CODE
    children,               \* the child processes started, each one's state
    child,                  \* the child wait_on_child polls
    returned,               \* what the last call returned
    \* admin.py, attendance_score: the grading scheme
    att_pc,
    points_by_classes_missed,
    delta

lockVars == <<lockDir, lockLog, now, proc>>
scoreVars == <<sc_pc, sc_names, sc_student, sc_score, sc_points_out_of>>
mapVars == <<m_pc, canvas_students, zybook_students, mapping,
             unmatched_canvas_ids, unmatched_zybook_ids, m_todo>>
editVars == <<ed_pc, ed_seq1, ed_seq2, ed_result>>
subVars == <<sub_pc, response, options, flag, files_directory>>
admVars == <<canvas_master, adm_pc, adm_op, written>>
readVars == <<rd_pc, rd_rows, rd_i, rd_roster, bad_id_count>>
mercyVars == <<mm_pc, mm_student, mm_points_out_of>>
searchVars == <<ss_pc, ss_students, student_num, checks, csv_log, ss_clock,
                ss_timeouts>>
runVars == <<run_pc, running_process, RUNNING_CODE, children, child, returned>>
attVars == <<att_pc, points_by_classes_missed, delta>>
toolVars == <<searchVars, runVars, attVars>>

\* what the actions of one component leave alone
others ==
    <<scoreVars, mapVars, editVars, subVars, admVars, readVars,
      mercyVars, toolVars>>
notScore ==
    <<lockVars, mapVars, editVars, subVars, admVars, readVars,
      mercyVars, toolVars>>
notMap ==
    <<lockVars, scoreVars, editVars, subVars, admVars, readVars,
      mercyVars, toolVars>>
notEdit ==
    <<lockVars, scoreVars, mapVars, subVars, admVars, readVars,
      mercyVars, toolVars>>
notSub ==
    <<lockVars, scoreVars, mapVars, editVars, admVars, readVars,
      mercyVars, toolVars>>
notAdm ==
    <<lockVars, scoreVars, mapVars, editVars, subVars, readVars,
      mercyVars, toolVars>>
notRead ==
    <<lockVars, scoreVars, mapVars, editVars, subVars, admVars,
      mercyVars, toolVars>>
notMercy ==
    <<lockVars, scoreVars, mapVars, editVars, subVars, admVars,
      readVars, toolVars>>
vars ==
    <<lockVars, scoreVars, mapVars, editVars, subVars, admVars, readVars,
      mercyVars, toolVars>>
notSearch ==
    <<lockVars, scoreVars, mapVars, editVars, subVars, admVars, readVars,
      mercyVars, runVars, attVars>>
notRun ==
    <<lockVars, scoreVars, mapVars, editVars, subVars, admVars, readVars,
      mercyVars, searchVars, attVars>>
notAtt ==
    <<lockVars, scoreVars, mapVars, editVars, subVars, admVars, readVars,
      mercyVars, searchVars, runVars>>

---------------------------------------------------------------------------
(* Bounds *)

MaxLog == 3          \* rows the audit log may hold while the flows run
MaxApiLog == 2       \* rows it may hold when the operations are called directly
MaxWindow == 11      \* largest window (minutes) a query is made with
MaxTicks == 1        \* times the clock advances
TickMinutes == 5     \* minutes that pass in one Tick
NumAssignments == 2  \* assignment columns of the gradebook
MaxPoints == 2       \* largest point maximum of an assignment
ScoreDen == 2        \* scores and fractions are multiples of 1/ScoreDen
MaxCanvas == 3       \* rows of the gradebook roster
MaxZybook == 3       \* rows of the platform roster
MaxSeqLen == 3       \* length of the sequences given to edit_distance
MaxParts == 2        \* parts of a lab
MaxPartScore == 1    \* score and max_score of one part
MaxRows == 3         \* rows of a roster file
MaxStudents == 2     \* students the submission search goes through
MaxSubmissions == 2  \* submissions of one student for the lab
MaxTimeouts == 2     \* connection errors during one search
MaxSchemeLen == 3    \* entries of a grading scheme as selected or entered
MaxSchemePoints == 3 \* largest entry of a grading scheme
MaxChildren == 4     \* child processes started while the program runs

(* Program constants *)

RECENT_LOCK_EMAILS == 2
DEFAULT_RANGE == 10
SLEEP_SECONDS == 5

(* The people and labs of the course *)

Graders == {"ta1", "ta2"}
Students == {"s1", "s2"}
Labs == {"l1"}
None == "None"
LabArgs == Labs \cup {None}
Queriers == Graders \cup {"ta3"}     \* who may ask; ta3 never locks
Windows == {0, RECENT_LOCK_EMAILS, DEFAULT_RANGE, MaxWindow}

---------------------------------------------------------------------------
(* data/lock.py *)

get_lock_files ==
    {l \in lockDir : l[Len(l)] = "lock"}

\* a marker name without the grader's prefix
get_lock_file_path_shared(username, student, lab) ==
    IF lab # None
    THEN <<"zygrader", lab, student, "lock">>
    ELSE <<"zygrader", student, "lock">>

get_lock_file_path(username, student, lab) ==
    IF lab # None
    THEN <<username, lab, student, "lock">>
    ELSE <<username, student, "lock">>

\* a test by suffix, as get_locked_netid makes it
is_locked_endswith(username, student, lab) ==
    LET lock_path_end == Tail(get_lock_file_path(username, student, lab))
        n == Len(lock_path_end)
    IN  \E lock \in get_lock_files :
           /\ Len(lock) >= n
           /\ SubSeq(lock, Len(lock) - n + 1, Len(lock)) = lock_path_end

\* a test for the asking grader's own marker only
is_locked_own(username, student, lab) ==
    get_lock_file_path(username, student, lab) \in get_lock_files

is_locked(username, student, lab) ==
    LET lock_path_end == Tail(get_lock_file_path(username, student, lab))
    IN  \E lock \in get_lock_files : Tail(lock) = lock_path_end

\* lock.endswith(lock_path_end), on segments
EndsWith(name, end) ==
    /\ Len(name) >= Len(end)
    /\ SubSeq(name, Len(name) - Len(end) + 1, Len(name)) = end

\* get_locked_netid returns the prefix of the first matching file of
\* os.listdir, whose order is arbitrary: every matching file may be the first.
get_locked_netid(username, student, lab) ==
    LET lock_path_end == Tail(get_lock_file_path(username, student, lab))
        matches == {l \in get_lock_files : EndsWith(l, lock_path_end)}
    IN  IF matches = {} THEN {""} ELSE {l[1] : l \in matches}

LogRow(name, lab, event_type, username, lock) ==
    [time |-> now, event_type |-> event_type, name |-> name, lab |-> lab,
     ta |-> username, lock |-> lock]

\* a log opened with mode "w" in place of "a"
log_overwrite(name, lab, event_type, username, lock) ==
    lockLog' = <<LogRow(name, lab, event_type, username, lock)>>

log(name, lab, event_type, username, lock) ==
    lockLog' = Append(lockLog, LogRow(name, lab, event_type, username, lock))

NotFound == [found |-> FALSE, ts |-> None, ta |-> None]

Matches(row, student, lab) ==
    row.name = student /\ (lab = None \/ row.lab = lab)

\* a scan that does not skip the rows of the grader who asks
ScanRows_noskip(rows, i, student, lab, netid) ==
    LET m == {k \in 1..i : Matches(rows[k], student, lab)}
        k == CHOOSE k \in m : \A j \in m : j <= k
    IN  IF m = {} THEN NotFound
        ELSE [found |-> TRUE, ts |-> rows[k].time, ta |-> rows[k].ta]

\* a scan in file order, oldest row first
ScanRows_oldest(rows, i, student, lab, netid) ==
    LET m == {k \in 1..i : Matches(rows[k], student, lab) /\ rows[k].ta # netid}
        k == CHOOSE k \in m : \A j \in m : k <= j
    IN  IF m = {} THEN NotFound
        ELSE [found |-> TRUE, ts |-> rows[k].time, ta |-> rows[k].ta]

\* strftime("%I:%M %p - %m-%d-%Y") names the minute, the unit of time here
RECURSIVE ScanRows(_, _, _, _, _)
ScanRows(rows, i, student, lab, netid) ==
    IF i = 0 THEN NotFound
    ELSE IF Matches(rows[i], student, lab)
         THEN IF rows[i].ta = netid
              THEN ScanRows(rows, i - 1, student, lab, netid)
              ELSE [found |-> TRUE, ts |-> rows[i].time, ta |-> rows[i].ta]
         ELSE ScanRows(rows, i - 1, student, lab, netid)

\* the rows of the file that lie within the time range
RowsInRange(file, range) ==
    LET oldest_allowed == now - range
    IN  SelectSeq(file, LAMBDA row : row.time > oldest_allowed)

\* was_recently_locked, reading the rows of file
ReadLockLog(file, student, lab, netid, range) ==
    LET rows == RowsInRange(file, range)
    IN  IF rows = <<>> THEN NotFound
        ELSE ScanRows(rows, Len(rows), student, lab, netid)

was_recently_locked(student, lab, netid, range) ==
    ReadLockLog(lockLog, student, lab, netid, range)

lock(username, student, lab) ==
    /\ lockDir' = lockDir \cup {get_lock_file_path(username, student, lab)}
    /\ IF lab # None
       THEN log(student, lab, "LAB", username, "LOCK")
       ELSE log(student, "N/A", "EMAIL", username, "LOCK")

\* an unlock that removes the email marker whatever the lab
unlock_email_marker(username, student, lab) ==
    /\ lockDir' = lockDir \ {get_lock_file_path(username, student, None)}
    /\ IF lab # None
       THEN log(student, lab, "LAB", username, "UNLOCK")
       ELSE log(student, "N/A", "EMAIL", username, "UNLOCK")

\* an unlock that removes the markers of every grader for the pair
unlock_any_grader(username, student, lab) ==
    /\ lockDir' =
          {l \in lockDir :
              Tail(l) # Tail(get_lock_file_path(username, student, lab))}
    /\ IF lab # None
       THEN log(student, lab, "LAB", username, "UNLOCK")
       ELSE log(student, "N/A", "EMAIL", username, "UNLOCK")

unlock(username, student, lab) ==
    /\ lockDir' = lockDir \ {get_lock_file_path(username, student, lab)}
    /\ IF lab # None
       THEN log(student, lab, "LAB", username, "UNLOCK")
       ELSE log(student, "N/A", "EMAIL", username, "UNLOCK")

unlock_all_labs_by_grader(username) ==
    /\ lockDir' = {l \in lockDir : ~(l \in get_lock_files /\ l[1] = username)}
    /\ UNCHANGED <<lockLog, now, proc>>
    /\ UNCHANGED others

unlock_all_labs ==
    /\ lockDir' = lockDir \ get_lock_files
    /\ UNCHANGED <<lockLog, now, proc>>
    /\ UNCHANGED others

remove_lock_file(_file) ==
    /\ _file \in lockDir
    /\ lockDir' = lockDir \ {_file}
    /\ UNCHANGED <<lockLog, now, proc>>
    /\ UNCHANGED others

\* Time passes.  Only the age of the rows matters, so the clock starts
\* with the first row.
Tick ==
    /\ lockLog # <<>>
    /\ now < MaxTicks * TickMinutes
    /\ now' = now + TickMinutes
    /\ UNCHANGED <<lockDir, lockLog, proc>>
    /\ UNCHANGED others

---------------------------------------------------------------------------
(* The Lock Manager called directly, by any grader in any order *)

ApiLock(g, student, lab) ==
    /\ Len(lockLog) < MaxApiLog
    /\ lock(g, student, lab)
    /\ UNCHANGED <<now, proc>>
    /\ UNCHANGED others

ApiUnlock(g, student, lab) ==
    /\ Len(lockLog) < MaxApiLog
    /\ unlock(g, student, lab)
    /\ UNCHANGED <<now, proc>>
    /\ UNCHANGED others

---------------------------------------------------------------------------
(* The flows that lock: grader.py, email_manager.py, zygrade.py, run with  *)
(* use_locks = True ("Run for Fun" never calls the Lock Manager).          *)
(*                                                                         *)
(* proc[g].kind is "grade" (grader.student_select_fn), "email"             *)
(* (email_manager.lock_student_callback) or "legacy" (zygrade.grade);      *)
(* proc[g].second is the second student while grade_pair_programming runs, *)
(* proc[g].exc says that an exception is propagating.                      *)
(* The popups between the steps let other processes run in between.        *)

Idle == [pc |-> "idle", kind |-> None, student |-> None, lab |-> None,
         second |-> None, exc |-> FALSE]

\* the student the running is_lab_available / get_submission is about
Target(g) == IF proc[g].second # None THEN proc[g].second ELSE proc[g].student

Goto(g, label) == proc' = [proc EXCEPT ![g].pc = label]

\* show_currently_grading_popup / show_currently_locked_popup:
\* the values it may return
show_currently_grading_popup(g, student, lab) ==
    {netid = g : netid \in get_locked_netid(g, student, lab)}

\* the callers' test "is_locked(...) and not show_..._popup(...)"
Refused(g, student, lab) ==
    /\ is_locked(g, student, lab)
    /\ FALSE \in show_currently_grading_popup(g, student, lab)

Allowed(g, student, lab) ==
    \/ ~is_locked(g, student, lab)
    \/ TRUE \in show_currently_grading_popup(g, student, lab)

student_select_fn(g) ==
    /\ proc[g].pc = "idle"
    /\ \E student \in Students, lab \in Labs :
          proc' = [proc EXCEPT ![g] =
                      [Idle EXCEPT !.pc = "check1", !.kind = "grade",
                                   !.student = student, !.lab = lab]]
    /\ UNCHANGED <<lockDir, lockLog, now>>
    /\ UNCHANGED others

lock_student_callback(g) ==
    /\ proc[g].pc = "idle"
    /\ \E student \in Students :
          proc' = [proc EXCEPT ![g] =
                      [Idle EXCEPT !.pc = "check1", !.kind = "email",
                                   !.student = student]]
    /\ UNCHANGED <<lockDir, lockLog, now>>
    /\ UNCHANGED others

grade(g) ==
    /\ proc[g].pc = "idle"
    /\ \E student \in Students, lab \in Labs :
          proc' = [proc EXCEPT ![g] =
                      [Idle EXCEPT !.pc = "check1", !.kind = "legacy",
                                   !.student = student, !.lab = lab]]
    /\ UNCHANGED <<lockDir, lockLog, now>>
    /\ UNCHANGED others

\* After a refusal: is_lab_available returned False.  The pair programming
\* callback returns to the submission popup, the others to the list.
Return(g) ==
    proc' = [proc EXCEPT ![g] =
                IF proc[g].second # None
                THEN [proc[g] EXCEPT !.pc = "popup", !.second = None]
                ELSE Idle]

\* the first "currently locked" test
Check1(g) ==
    /\ proc[g].pc = "check1"
    /\ IF proc[g].kind = "legacy"
       THEN IF is_locked(g, Target(g), proc[g].lab)
            THEN Return(g)
            ELSE Goto(g, "lock")
       ELSE \/ Refused(g, Target(g), proc[g].lab) /\ Return(g)
            \/ Allowed(g, Target(g), proc[g].lab) /\ Goto(g, "recent")
    /\ UNCHANGED <<lockDir, lockLog, now>>
    /\ UNCHANGED others

\* the "recently graded" / "recently emailed" popup
Recent(g) ==
    /\ proc[g].pc = "recent"
    /\ LET range == IF proc[g].kind = "email" THEN RECENT_LOCK_EMAILS
                    ELSE DEFAULT_RANGE
           recently == was_recently_locked(Target(g), proc[g].lab, g, range)
       IN  \/ recently.found /\ Return(g)             \* "Close"
           \/ Goto(g, "check2")                       \* no popup, or proceed
    /\ UNCHANGED <<lockDir, lockLog, now>>
    /\ UNCHANGED others

\* the test repeated after the popups
Check2(g) ==
    /\ proc[g].pc = "check2"
    /\ \/ Refused(g, Target(g), proc[g].lab) /\ Return(g)
       \/ Allowed(g, Target(g), proc[g].lab) /\ Goto(g, "lock")
    /\ UNCHANGED <<lockDir, lockLog, now>>
    /\ UNCHANGED others

\* get_submission's lock, lock_student_callback's lock, grade's lock_lab
Lock(g) ==
    /\ proc[g].pc = "lock"
    /\ Len(lockLog) < MaxLog
    /\ lock(g, Target(g), proc[g].lab)
    /\ Goto(g, IF proc[g].kind = "email" THEN "popup" ELSE "download")
    /\ UNCHANGED now
    /\ UNCHANGED others

\* zy_api.download_assignment returns or raises
Download(g) ==
    /\ proc[g].pc = "download"
    /\ \E ok \in BOOLEAN :
          IF ok
          THEN IF proc[g].second # None /\ proc[g].second = proc[g].student
               THEN Goto(g, "unlock")          \* "Invalid Student"
               ELSE Goto(g, IF proc[g].second # None THEN "pair" ELSE "popup")
          ELSE IF proc[g].kind = "legacy"
               \* grade catches KeyboardInterrupt and curses.error only
               THEN \E caught \in BOOLEAN :
                       IF caught THEN Goto(g, "unlock")
                       ELSE proc' = [proc EXCEPT ![g] = Idle]
               ELSE proc' = [proc EXCEPT ![g].pc = "unlock",
                                         ![g].exc = (proc[g].second # None)]
    /\ UNCHANGED <<lockDir, lockLog, now>>
    /\ UNCHANGED others

\* the submission popup (or the "Student Locked" popup of the email flow,
\* or the pair programming popup) closes, or one of its callbacks raises
ClosePopup(g) ==
    /\ proc[g].pc \in {"popup", "pair"}
    /\ \E exc \in BOOLEAN :
          proc' = [proc EXCEPT ![g].pc = "unlock",
                               ![g].exc = (exc /\ proc[g].second # None)]
    /\ UNCHANGED <<lockDir, lockLog, now>>
    /\ UNCHANGED others

grade_pair_programming(g) ==
    /\ proc[g].pc = "popup"
    /\ proc[g].kind = "grade"
    /\ \E student \in Students :
          proc' = [proc EXCEPT ![g].second = student, ![g].pc = "check1"]
    /\ UNCHANGED <<lockDir, lockLog, now>>
    /\ UNCHANGED others

\* the finally blocks, and grade's unlock_lab
Unlock(g) ==
    /\ proc[g].pc = "unlock"
    /\ Len(lockLog) < MaxLog
    /\ unlock(g, Target(g), proc[g].lab)
    /\ proc' = [proc EXCEPT ![g] =
                   IF proc[g].second # None
                   THEN [proc[g] EXCEPT !.second = None, !.exc = FALSE,
                            !.pc = IF proc[g].exc THEN "unlock" ELSE "popup"]
                   ELSE Idle]
    /\ UNCHANGED now
    /\ UNCHANGED others


---------------------------------------------------------------------------
(* admin.py: combined scores and redistribution.                           *)
(*                                                                         *)
(* Python's floats are taken as exact rationals: a fraction f is the       *)
(* integer f * ScoreDen, a score x the integer x * ScoreDen, and points    *)
(* are whole numbers.                                                      *)

Assignments == 1..NumAssignments
Fractions == 0..ScoreDen

RECURSIVE SumOver(_, _)
SumOver(scores, assignment_names) ==
    IF assignment_names = {} THEN 0
    ELSE LET a == CHOOSE a \in assignment_names : TRUE
         IN  scores[a] + SumOver(scores, assignment_names \ {a})

_sum_scores(scores, assignment_names) == SumOver(scores, assignment_names)

\* points_earned / points_total, as numerator and denominator
_combined_score(assignment_names, student, points_out_of) ==
    [num |-> _sum_scores(student, assignment_names),
     den |-> ScoreDen * _sum_scores(points_out_of, assignment_names)]

\* sorted((float(points_out_of[a]), a) for a in assignment_names)
RECURSIVE Sorted(_, _)
Sorted(assignment_names, points_out_of) ==
    IF assignment_names = {} THEN <<>>
    ELSE LET a == CHOOSE a \in assignment_names :
                     \A b \in assignment_names :
                        \/ points_out_of[a] < points_out_of[b]
                        \/ points_out_of[a] = points_out_of[b] /\ a <= b
         IN  <<a>> \o Sorted(assignment_names \ {a}, points_out_of)

Min(a, b) == IF a <= b THEN a ELSE b

\* the for loop of _give_score_to_assignments from position i on
RECURSIVE GiveLoop(_, _, _, _, _)
GiveLoop(point_distro, i, student, points_out_of, points_left_to_distribute) ==
    IF i > Len(point_distro)
    THEN [student |-> student, left |-> points_left_to_distribute]
    ELSE LET assignment == point_distro[i]
             point_max == ScoreDen * points_out_of[assignment]
             points_to_give == Min(point_max, points_left_to_distribute)
             given == [student EXCEPT ![assignment] = points_to_give]
             left == points_left_to_distribute - points_to_give
         IN  IF left <= 0
             THEN [student |-> given, left |-> left]            \* break
             ELSE GiveLoop(point_distro, i + 1, given, points_out_of, left)

\* the student row after _give_score_to_assignments
_give_score_to_assignments(assignment_names, student, score, points_out_of) ==
    LET point_distro == Sorted(assignment_names, points_out_of)
        points_total == _sum_scores(points_out_of, assignment_names)
        after == GiveLoop(point_distro, 1, student, points_out_of,
                          score * points_total)
        last == point_distro[Len(point_distro)]
    IN  IF after.left > 0
        THEN [after.student EXCEPT ![last] = @ + after.left]
        ELSE after.student

GiveScore ==
    /\ sc_pc = "ready"
    /\ sc_student' = _give_score_to_assignments(sc_names, sc_student, sc_score,
                                                sc_points_out_of)
    /\ sc_pc' = "done"
    /\ UNCHANGED <<sc_names, sc_score, sc_points_out_of>>
    /\ UNCHANGED notScore


---------------------------------------------------------------------------
(* admin.py: _apply_midterm_mercy, for one student of the gradebook.       *)

\* the exams chosen by the operator: two midterms and the final
midterm_assignments == <<{1, 2}, {3}>>
final_assignments == {4}
ExamAssignments == {1, 2, 3, 4}

\* a / b < c / d for positive denominators
Less(x, y) == x.num * y.den < y.num * x.den

\* a min that returns the last of the lowest scores
LowestIdx_last(midterm_scores) ==
    CHOOSE i \in 1..Len(midterm_scores) :
       \A j \in 1..Len(midterm_scores) :
          \/ Less(midterm_scores[i], midterm_scores[j])
          \/ ~Less(midterm_scores[j], midterm_scores[i]) /\ j <= i

\* min(enumerate(midterm_scores), key=operator.itemgetter(1)): the first
\* of the lowest scores
LowestIdx(midterm_scores) ==
    CHOOSE i \in 1..Len(midterm_scores) :
       \A j \in 1..Len(midterm_scores) :
          \/ Less(midterm_scores[i], midterm_scores[j])
          \/ ~Less(midterm_scores[j], midterm_scores[i]) /\ i <= j

\* the body of the for loop of _apply_midterm_mercy; the final score is a
\* multiple of 1/ScoreDen
MercyFor(student, points_out_of) ==
    LET midterm_scores ==
            [i \in 1..Len(midterm_assignments) |->
                _combined_score(midterm_assignments[i], student, points_out_of)]
        final_score ==
            _combined_score(final_assignments, student, points_out_of)
        lowest_mt_idx == LowestIdx(midterm_scores)
        lowest_mt_score == midterm_scores[lowest_mt_idx]
    IN  IF Less(lowest_mt_score, final_score)
        THEN _give_score_to_assignments(
                 midterm_assignments[lowest_mt_idx], student,
                 (final_score.num * ScoreDen) \div final_score.den,
                 points_out_of)
        ELSE student

_apply_midterm_mercy ==
    /\ mm_pc = "ready"
    /\ mm_student' = MercyFor(mm_student, mm_points_out_of)
    /\ mm_pc' = "done"
    /\ UNCHANGED mm_points_out_of
    /\ UNCHANGED notMercy

---------------------------------------------------------------------------
(* grade_puller.py: GradePuller.StudentMapping.                            *)
(*                                                                         *)
(* A string is the sequence of its characters; the digits are 0..9, the    *)
(* lower case letters 10..35 and the upper case letters 36..61.  A         *)
(* dictionary key is an int, [n |-> the int, s |-> <<>>], or a str,        *)
(* [n |-> -1, s |-> the string]: an int never equals a str.                *)

isdigit(c) == c \in 0..9
isalpha(c) == c \in 10..61
lower(c) == IF c \in 36..61 THEN c - 26 ELSE c

IntKey(n) == [n |-> n, s |-> <<>>]
StrKey(str) == [n |-> -1, s |-> str]

\* [c for c in id_str if c.isdigit()]
Digits(str) == SelectSeq(str, isdigit)

\* int("".join(chrs)) of a non-empty string of digits
RECURSIVE int(_)
int(chrs) ==
    IF chrs = <<>> THEN 0
    ELSE 10 * int(SubSeq(chrs, 1, Len(chrs) - 1)) + chrs[Len(chrs)]

\* read_canvas_csv: the key of a gradebook row with a numeric SIS User ID
CanvasKey(row) == IntKey(int(row.sis_user_id))

\* parse_completion_report: the key of a platform row with this Student ID
ZybookKey(string_id) ==
    IF \E i \in 1..Len(string_id) : isalpha(string_id[i])
    THEN StrKey([i \in 1..Len(string_id) |-> lower(string_id[i])])
    ELSE IntKey(int(Digits(string_id)))

\* the gradebook rows and the platform Student IDs the rosters are drawn from
CanvasPool ==
    { [sis_user_id |-> <<1, 0, 0>>, sis_login_id |-> <<10, 11>>],
      [sis_user_id |-> <<1, 0, 1>>, sis_login_id |-> <<12, 13>>],
      [sis_user_id |-> <<1, 0, 2>>, sis_login_id |-> <<14, 15>>],
      [sis_user_id |-> <<1, 0, 3>>, sis_login_id |-> <<10, 11>>] }

ZybookPool ==
    { <<1, 0, 0>>, <<1, 0, 1, 9, 9>>, <<1, 0, 1, 9, 1>>, <<10, 11>>,
      <<1, 0, 1, 2>>, <<9, 9, 1, 9, 9>>, <<1, 0, 1>> }

CanvasRoster(rows) == [k \in {CanvasKey(r) : r \in rows} |->
                          CHOOSE r \in rows : CanvasKey(r) = k]

ZybookRoster(ids) == [k \in {ZybookKey(i) : i \in ids} |->
                         [student_id |-> CHOOSE i \in ids : ZybookKey(i) = k,
                          id_number |-> k]]

\* the fields of a StudentMapping under construction
Fields == [mapping |-> mapping, unmatched_canvas_ids |-> unmatched_canvas_ids,
           unmatched_zybook_ids |-> unmatched_zybook_ids, raised |-> FALSE]

\* an _add_entry with set.discard in place of set.remove
_add_entry_discard(self, canvas_id, zybook_id) ==
    [mapping |-> [k \in DOMAIN self.mapping \cup {canvas_id} |->
                     IF k = canvas_id THEN zybook_students[zybook_id]
                     ELSE self.mapping[k]],
     unmatched_canvas_ids |-> self.unmatched_canvas_ids \ {canvas_id},
     unmatched_zybook_ids |-> self.unmatched_zybook_ids \ {zybook_id},
     raised |-> FALSE]

\* set.remove raises KeyError when the element is missing
_add_entry(self, canvas_id, zybook_id) ==
    [mapping |-> [k \in DOMAIN self.mapping \cup {canvas_id} |->
                     IF k = canvas_id THEN zybook_students[zybook_id]
                     ELSE self.mapping[k]],
     unmatched_canvas_ids |-> self.unmatched_canvas_ids \ {canvas_id},
     unmatched_zybook_ids |->
         IF canvas_id \in self.unmatched_canvas_ids
         THEN self.unmatched_zybook_ids \ {zybook_id}
         ELSE self.unmatched_zybook_ids,
     raised |-> \/ canvas_id \notin self.unmatched_canvas_ids
                \/ zybook_id \notin self.unmatched_zybook_ids]

\* the table of edit_distance, row by row
RECURSIVE TableRow(_, _, _, _)
TableRow(above, seq1, c2, row) ==
    LET j == Len(row)
    IN  IF j > Len(seq1) THEN row
        ELSE LET left_score == row[j] + 1
                 up_score == above[j + 1] + 1
                 diag_score == above[j] + (IF c2 = seq1[j] THEN 0 ELSE 1)
             IN  TableRow(above, seq1, c2,
                          Append(row, Min(Min(left_score, up_score), diag_score)))

RECURSIVE Table(_, _, _)
Table(seq1, seq2, i) ==
    IF i = 0 THEN [j \in 1..(Len(seq1) + 1) |-> j - 1]
    ELSE TableRow(Table(seq1, seq2, i - 1), seq1, seq2[i], <<i>>)

\* an edit_distance that returns the cell left of the last one
edit_distance_left_cell(seq1, seq2) ==
    IF seq1 = <<>> THEN Len(seq2)
    ELSE Table(seq1, seq2, Len(seq2))[Len(seq1)]

edit_distance(seq1, seq2) == Table(seq1, seq2, Len(seq2))[Len(seq1) + 1]

\* the sequences edit_distance is called with
Alphabet == {0, 1}
Seqs == UNION {[1..n -> Alphabet] : n \in 0..MaxSeqLen}

EditDistance ==
    /\ ed_pc = "call"
    /\ ed_result' = edit_distance(ed_seq1, ed_seq2)
    /\ ed_pc' = "done"
    /\ UNCHANGED <<ed_seq1, ed_seq2>>
    /\ UNCHANGED notEdit

\* one round of the first loop of _create_mapping, with login id tried first
ExactStep_login_first(self, student_id) ==
    LET netid == StrKey(canvas_students[student_id].sis_login_id)
    IN  IF netid \in DOMAIN zybook_students
        THEN _add_entry(self, student_id, netid)
        ELSE IF student_id \in DOMAIN zybook_students
             THEN _add_entry(self, student_id, student_id)
             ELSE self

\* one round of the first loop of _create_mapping
ExactStep(self, student_id) ==
    LET netid == StrKey(canvas_students[student_id].sis_login_id)
    IN  IF student_id \in DOMAIN zybook_students
        THEN _add_entry(self, student_id, student_id)
        ELSE IF netid \in DOMAIN zybook_students
             THEN _add_entry(self, student_id, netid)
             ELSE self

\* id_chrs[:-2]
AllButLast(chrs, n) ==
    IF Len(chrs) <= n THEN <<>> ELSE SubSeq(chrs, 1, Len(chrs) - n)

\* one round of the second loop, taking one digit off
StripStep_one_digit(self, bad_zybook_id) ==
    LET real_id_chrs ==
            AllButLast(Digits(zybook_students[bad_zybook_id].student_id), 1)
    IN  IF real_id_chrs = <<>> THEN self
        ELSE IF IntKey(int(real_id_chrs)) \in self.unmatched_canvas_ids
             THEN _add_entry(self, IntKey(int(real_id_chrs)), bad_zybook_id)
             ELSE self

\* one round of the second loop, looking the number up in the whole roster
StripStep_whole_roster(self, bad_zybook_id) ==
    LET real_id_chrs ==
            AllButLast(Digits(zybook_students[bad_zybook_id].student_id), 2)
    IN  IF real_id_chrs = <<>> THEN self
        ELSE IF IntKey(int(real_id_chrs)) \in DOMAIN canvas_students
             THEN _add_entry(self, IntKey(int(real_id_chrs)), bad_zybook_id)
             ELSE self

\* one round of the second loop of _create_mapping
StripStep(self, bad_zybook_id) ==
    LET real_id_chrs ==
            AllButLast(Digits(zybook_students[bad_zybook_id].student_id), 2)
    IN  IF real_id_chrs = <<>> THEN self                 \* ValueError
        ELSE IF IntKey(int(real_id_chrs)) \in self.unmatched_canvas_ids
             THEN _add_entry(self, IntKey(int(real_id_chrs)), bad_zybook_id)
             ELSE self

\* a cutoff that lets distance 4 through
EDIT_DISTANCE_CUTOFF_more == 4 + 1

EDIT_DISTANCE_CUTOFF == 4

\* consider_pairs[canvas_id], empty when canvas_id is not a key
consider_pairs(self, canvas_id) ==
    {zybook_id \in self.unmatched_zybook_ids :
        LET zybook_str_id == zybook_students[zybook_id].student_id
        IN  /\ ~ \E i \in 1..Len(zybook_str_id) : isalpha(zybook_str_id[i])
            /\ edit_distance(Digits(zybook_str_id),
                             canvas_students[canvas_id].sis_user_id)
                  < EDIT_DISTANCE_CUTOFF}

double_seen_zybook_ids(self) ==
    {zybook_id \in self.unmatched_zybook_ids :
        \E c1, c2 \in self.unmatched_canvas_ids :
           /\ c1 # c2
           /\ zybook_id \in consider_pairs(self, c1)
           /\ zybook_id \in consider_pairs(self, c2)}

\* the last loop: the pairs of confirmed share no id, so their order is
\* immaterial
RECURSIVE AddAll(_, _)
AddAll(self, confirmed) ==
    IF confirmed = {} THEN self
    ELSE LET pair == CHOOSE pair \in confirmed : TRUE
         IN  AddAll(_add_entry(self, pair[1], pair[2]), confirmed \ {pair})

FuzzyStep(self) ==
    LET confirmed ==
            {<<canvas_id, zybook_id>> \in
                 self.unmatched_canvas_ids \X self.unmatched_zybook_ids :
                /\ consider_pairs(self, canvas_id) = {zybook_id}
                /\ zybook_id \notin double_seen_zybook_ids(self)}
    IN  AddAll(self, confirmed)

Assign(self, label, todo) ==
    /\ mapping' = self.mapping
    /\ unmatched_canvas_ids' = self.unmatched_canvas_ids
    /\ unmatched_zybook_ids' = self.unmatched_zybook_ids
    /\ m_pc' = IF self.raised THEN "raised" ELSE label
    /\ m_todo' = IF self.raised THEN {} ELSE todo
    /\ UNCHANGED <<canvas_students, zybook_students>>
    /\ UNCHANGED notMap

\* the first loop visits the gradebook rows in the order of the file
MatchExact ==
    /\ m_pc = "exact"
    /\ \E student_id \in m_todo :
          LET self == ExactStep(Fields, student_id)
              todo == m_todo \ {student_id}
          IN  IF todo = {}
              THEN Assign(self, "strip", self.unmatched_zybook_ids)
              ELSE Assign(self, "exact", todo)

\* the second loop visits a copy of unmatched_zybook_ids in the set's order
MatchStripped ==
    /\ m_pc = "strip"
    /\ m_todo # {}
    /\ \E bad_zybook_id \in m_todo :
          LET self == StripStep(Fields, bad_zybook_id)
              todo == m_todo \ {bad_zybook_id}
          IN  Assign(self, "strip", todo)

MatchFuzzy ==
    /\ m_pc = "strip"
    /\ m_todo = {}
    /\ Assign(FuzzyStep(Fields), "done", {})

\* the whole of _create_mapping with each loop in a fixed order
RECURSIVE InOrder(_, _, _)
InOrder(self, label, todo) ==
    IF self.raised THEN self
    ELSE IF todo = {}
         THEN IF label = "exact"
              THEN InOrder(self, "strip", self.unmatched_zybook_ids)
              ELSE FuzzyStep(self)
         ELSE LET id == CHOOSE id \in todo : TRUE
              IN  InOrder(IF label = "exact" THEN ExactStep(self, id)
                          ELSE StripStep(self, id),
                          label, todo \ {id})

---------------------------------------------------------------------------
(* data/model.py: Submission.construct_submission, the score part and the *)
(* extraction of the parts' files                                          *)

NO_SUBMISSION == "NO_SUBMISSION"
NO_ERROR == "NO_ERROR"
ERROR == "ERROR"

\* zip_file is what get_submission_zip(part["zip_url"]) answers for the part:
\* an archive ("zip") or Zybooks.ERROR when the location is bad
Parts == [code : {NO_ERROR, NO_SUBMISSION}, score : 0..MaxPartScore,
          max_score : 0..MaxPartScore, zip_file : {"zip", ERROR}]

\* the lab's options bag: a dictionary with or without the key max_score
NoOptions == [k \in {} |-> 0]
OptionBags == {NoOptions} \cup {[k \in {"max_score"} |-> v] : v \in 1..MaxParts}

\* the for loop over self.response["parts"], from part i on
RECURSIVE PartsLoop(_, _, _)
PartsLoop(parts, i, acc) ==
    IF i > Len(parts) THEN acc
    ELSE LET part == parts[i]
         IN  IF part.code # NO_SUBMISSION
             THEN PartsLoop(parts, i + 1,
                    [score |-> acc.score + part.score,
                     max_score |-> acc.max_score + part.max_score,
                     incorrect_max |-> acc.incorrect_max \/ part.max_score = 0])
             ELSE PartsLoop(parts, i + 1, [acc EXCEPT !.incorrect_max = TRUE])

\* the for loop of read_files: the parts whose zip location is bad
BadZipParts(parts) ==
    {i \in 1..Len(parts) :
        parts[i].code # NO_SUBMISSION /\ parts[i].zip_file = ERROR}

\* the parts it makes a subdirectory for and writes the files of
Extracted(parts) ==
    {i \in 1..Len(parts) :
        parts[i].code # NO_SUBMISSION /\ parts[i].zip_file # ERROR}

\* self.flag and self.files_directory after read_files
read_files ==
    /\ flag' = (flag \ {"NO_SUBMISSION"}) \cup
                  (IF BadZipParts(response.parts) # {} THEN {"BAD_ZIP_URL"}
                   ELSE {})
    /\ files_directory' = Extracted(response.parts)

\* self.lab.options["max_score"] raises KeyError when the key is absent, and
\* read_files is then not reached
KeyError ==
    /\ flag' = flag \ {"NO_SUBMISSION"}
    /\ UNCHANGED files_directory

construct_submission ==
    /\ sub_pc = "construct"
    /\ LET acc == PartsLoop(response.parts, 1,
                            [score |-> 0, max_score |-> 0,
                             incorrect_max |-> FALSE])
       IN  IF acc.incorrect_max
           THEN IF "max_score" \in DOMAIN options
                THEN /\ response' = [response EXCEPT
                                        !.score = acc.score,
                                        !.max_score = options["max_score"]]
                     /\ read_files
                     /\ sub_pc' = "done"
                ELSE /\ response' = [response EXCEPT
                                        !.score = acc.score,
                                        !.max_score = acc.max_score]
                     /\ KeyError
                     /\ sub_pc' = "KeyError"
           ELSE /\ response' = [response EXCEPT !.score = acc.score,
                                                !.max_score = acc.max_score]
                /\ read_files
                /\ sub_pc' = "done"
    /\ UNCHANGED options
    /\ UNCHANGED notSub

---------------------------------------------------------------------------
(* grade_puller.py and admin.py: the operations that start by reading the  *)
(* gradebook CSV                                                           *)

FileStates == {"ok", "absent", "unreadable"}
Operations == {"pull", "find_unmatched_students", "report_gaps",
               "attendance_score", "midterm_mercy"}

\* open() raises FileNotFoundError or PermissionError, and read_canvas_csv
\* turns either into StoppingException
read_canvas_csv ==
    IF canvas_master = "ok" THEN "read" ELSE "StoppingException"

\* the operation goes on with the roster it has read
GoOn(op) ==
    /\ adm_pc' = "work"
    /\ adm_op' = op
    /\ UNCHANGED <<canvas_master, written>>
    /\ UNCHANGED notAdm

\* except GradePuller.StoppingException: the operation ends there
Caught(op) ==
    /\ adm_pc' = "stopped"
    /\ adm_op' = op
    /\ UNCHANGED <<canvas_master, written>>
    /\ UNCHANGED notAdm

\* the menu is shown: no operation runs
AtMenu == adm_pc \in {"idle", "stopped"}

\* no handler: the exception leaves the operation
Uncaught(op) ==
    /\ adm_pc' = "StoppingException"
    /\ adm_op' = op
    /\ UNCHANGED <<canvas_master, written>>
    /\ UNCHANGED notAdm

pull ==
    /\ AtMenu
    /\ IF read_canvas_csv = "read" THEN GoOn("pull") ELSE Caught("pull")

find_unmatched_students ==
    /\ AtMenu
    /\ IF read_canvas_csv = "read" THEN GoOn("find_unmatched_students")
       ELSE Caught("find_unmatched_students")

report_gaps ==
    /\ AtMenu
    /\ IF read_canvas_csv = "read" THEN GoOn("report_gaps")
       ELSE Caught("report_gaps")

attendance_score ==
    /\ AtMenu
    /\ IF read_canvas_csv = "read" THEN GoOn("attendance_score")
       ELSE Caught("attendance_score")

\* puller.read_canvas_csv() stands outside any try
midterm_mercy ==
    /\ AtMenu
    /\ IF read_canvas_csv = "read" THEN GoOn("midterm_mercy")
       ELSE Uncaught("midterm_mercy")

\* the rest of the operation: it writes its output file, or the operator
\* cancels before that
Finish ==
    /\ adm_pc = "work"
    /\ \E cancel \in BOOLEAN :
          written' = IF cancel THEN written ELSE written \cup {adm_op}
    /\ adm_pc' = "idle"
    /\ adm_op' = None
    /\ UNCHANGED canvas_master
    /\ UNCHANGED notAdm

\* between two operations the operator replaces, removes or protects the file
ChangeFile ==
    /\ AtMenu
    /\ \E f \in FileStates \ {canvas_master} : canvas_master' = f
    /\ UNCHANGED <<adm_pc, adm_op, written>>
    /\ UNCHANGED notAdm

---------------------------------------------------------------------------
(* grade_puller.py: the keys read_canvas_csv and parse_completion_report   *)
(* give to the rows.  "_", "(" and ")" are the characters 62, 63 and 64.   *)

\* str(n) of a natural number
RECURSIVE str(_)
str(n) == IF n < 10 THEN <<n>> ELSE str(n \div 10) \o <<n % 10>>

\* str(real_id) of a key
KeyStr(key) == IF key.n >= 0 THEN str(key.n) ELSE key.s

\* f"bad_canvas_id_{bad_id_count}"
bad_canvas_id(n) ==
    StrKey(<<11, 10, 13, 62, 12, 10, 23, 31, 10, 28, 62, 18, 13, 62>> \o str(n))

\* f"bad_zybooks_id_{bad_id_count}"
bad_zybooks_id(n) ==
    StrKey(<<11, 10, 13, 62, 35, 34, 11, 24, 24, 20, 28, 62, 18, 13, 62>>
           \o str(n))

\* the id columns the files are drawn from: missing, numeric, a login id,
\* punctuation only
IdStrings == {<<>>, <<1, 0, 0>>, <<10, 11>>, <<62>>}

\* int(id_str) succeeds on a non-empty string of digits
IsNumeric(id_str) ==
    id_str # <<>> /\ \A i \in 1..Len(id_str) : isdigit(id_str[i])

\* while real_id in report: real_id = str(real_id) + "(02)"
RECURSIVE Unused(_, _)
Unused(real_id, report) ==
    IF real_id \in DOMAIN report
    THEN Unused(StrKey(KeyStr(real_id) \o <<63, 0, 2, 64>>), report)
    ELSE real_id

Store(key, count, next_pc) ==
    /\ rd_roster' = [k \in DOMAIN rd_roster \cup {key} |->
                        IF k = key THEN rd_i ELSE rd_roster[k]]
    /\ bad_id_count' = count
    /\ rd_i' = rd_i + 1
    /\ rd_pc' = IF rd_i = Len(rd_rows) THEN "done" ELSE next_pc
    /\ UNCHANGED rd_rows
    /\ UNCHANGED notRead

\* int() of a string that is not a number raises ValueError
Fails ==
    /\ rd_pc' = "ValueError"
    /\ UNCHANGED <<rd_rows, rd_i, rd_roster, bad_id_count>>
    /\ UNCHANGED notRead

\* one round of the for loop of read_canvas_csv
ReadCanvasRow ==
    /\ rd_pc = "read_canvas_csv"
    /\ LET id_str == rd_rows[rd_i]
       IN  IF id_str # <<>>
           THEN IF IsNumeric(id_str)
                THEN Store(IntKey(int(id_str)), bad_id_count, rd_pc)
                ELSE Fails
           ELSE Store(bad_canvas_id(bad_id_count + 1), bad_id_count + 1, rd_pc)

\* one round of the for loop of parse_completion_report
ParseReportRow ==
    /\ rd_pc = "parse_completion_report"
    /\ LET string_id == rd_rows[rd_i]
           num_alpha == Len(SelectSeq(string_id, isalpha))
       IN  IF num_alpha > 0
           THEN Store(Unused(ZybookKey(string_id), rd_roster), bad_id_count,
                      rd_pc)
           ELSE IF Digits(string_id) # <<>>
                THEN Store(Unused(IntKey(int(Digits(string_id))), rd_roster),
                           bad_id_count, rd_pc)
                ELSE Store(Unused(IF string_id # <<>> THEN StrKey(string_id)
                                  ELSE bad_zybooks_id(bad_id_count + 1),
                                  rd_roster),
                           bad_id_count + 1, rd_pc)

---------------------------------------------------------------------------
(* admin.py: the submission search *)

DOWNLOAD_TIMEOUT == "DOWNLOAD_TIMEOUT"

\* what fetching and searching one submission comes to: the fetch raises
\* ConnectionError, the zip location is bad, or the archive is read and
\* the pattern is or is not found in it
SubmissionOutcomes == {"ConnectionError", ERROR, "match", "no_match"}

AllSubmissions ==
    UNION {[1..n -> SubmissionOutcomes] : n \in 0..MaxSubmissions}

\* the for loop over all_submissions, from submission i on
RECURSIVE SubmissionsLoop(_, _, _)
SubmissionsLoop(all_submissions, i, resp) ==
    IF i > Len(all_submissions) THEN resp
    ELSE LET submission == all_submissions[i]
         IN  IF submission = "ConnectionError"
             THEN [code |-> DOWNLOAD_TIMEOUT, error |-> FALSE]
             ELSE IF submission = ERROR
             THEN SubmissionsLoop(all_submissions, i + 1,
                                  [resp EXCEPT !.error = TRUE])
             ELSE IF submission = "match"
             THEN [resp EXCEPT !.code = NO_ERROR]
             ELSE SubmissionsLoop(all_submissions, i + 1, resp)

\* the response dictionary; error says whether it has the key "error"
check_student_submissions(all_submissions) ==
    SubmissionsLoop(all_submissions, 1,
                    [code |-> NO_SUBMISSION, error |-> FALSE])

\* the test that sends the while loop round again
Retry_never(match_result) == FALSE

Retry(match_result) == match_result.code = DOWNLOAD_TIMEOUT

\* the rows the search writes for a student
Rows(student, match_result) ==
    (IF match_result.code = NO_ERROR
     THEN <<[Name |-> student, Submission |-> "time"]>> ELSE <<>>)
    \o (IF match_result.error
        THEN <<[Name |-> student, Submission |-> "ERROR"]>> ELSE <<>>)

\* one turn of the while loop: the student is checked, and either the loop
\* goes to sleep or the student's rows are written and the for loop moves on
CheckStudent ==
    /\ ss_pc = "search"
    /\ \E all_submissions \in AllSubmissions :
          LET match_result == check_student_submissions(all_submissions)
          IN  /\ match_result.code = DOWNLOAD_TIMEOUT
                    => ss_timeouts < MaxTimeouts
              /\ checks' = Append(checks, [student |-> student_num,
                                           at |-> ss_clock,
                                           code |-> match_result.code])
              /\ ss_timeouts' = IF match_result.code = DOWNLOAD_TIMEOUT
                                THEN ss_timeouts + 1 ELSE ss_timeouts
              /\ IF Retry(match_result)
                 THEN /\ ss_pc' = "sleep"
                      /\ UNCHANGED <<student_num, csv_log>>
                 ELSE /\ csv_log' = csv_log \o Rows(student_num, match_result)
                      /\ student_num' = student_num + 1
                      /\ ss_pc' = IF student_num = ss_students THEN "done"
                                  ELSE "search"
    /\ UNCHANGED <<ss_students, ss_clock>>
    /\ UNCHANGED notSearch

\* time.sleep(5), and round the while loop
Sleep ==
    /\ ss_pc = "sleep"
    /\ ss_clock' = ss_clock + SLEEP_SECONDS
    /\ ss_pc' = "search"
    /\ UNCHANGED <<ss_students, student_num, checks, csv_log, ss_timeouts>>
    /\ UNCHANGED notSearch

---------------------------------------------------------------------------
(* data/model.py: running a student's program.  A child process is known  *)
(* by its position in children; it is "running", "stopped" or "exited".    *)

\* SharedData.running_process = None
NoProcess == 0

do_resume_code_never(process) == FALSE

\* `if process:` - a Popen object is true, None is not
do_resume_code(process) == process # NoProcess

\* process.send_signal(signal.SIGCONT)
SIGCONT(process) ==
    [children EXCEPT ![process] = IF @ = "stopped" THEN "running" ELSE @]

\* compile_and_run_code up to the point where it waits for the child: the
\* tracked child is resumed, or the code is compiled (executable says
\* whether that worked) and a new child is started and tracked
compile_and_run_code ==
    /\ run_pc = "popup"
    /\ IF do_resume_code(running_process)
       THEN /\ RUNNING_CODE' = TRUE
            /\ children' = SIGCONT(running_process)
            /\ child' = running_process
            /\ run_pc' = "wait"
            /\ UNCHANGED <<running_process, returned>>
       ELSE \E executable \in BOOLEAN :
               IF ~executable
               THEN /\ returned' = "False"
                    /\ UNCHANGED <<run_pc, running_process, RUNNING_CODE,
                                   children, child>>
               ELSE /\ Len(children) < MaxChildren
                    /\ RUNNING_CODE' = TRUE
                    /\ children' = Append(children, "running")
                    /\ running_process' = Len(children) + 1
                    /\ child' = Len(children) + 1
                    /\ run_pc' = "wait"
                    /\ UNCHANGED returned
    /\ UNCHANGED notRun

\* child.poll() is None
poll_is_None(process) == children[process] # "exited"

\* wait_on_child leaves its loop when the child has exited or RUNNING_CODE
\* is off, says whether the tracked child is still there, and
\* compile_and_run_code forgets the child if it is not
wait_on_child ==
    /\ run_pc = "wait"
    /\ ~poll_is_None(child) \/ ~RUNNING_CODE
    /\ LET stopped == /\ running_process # NoProcess
                      /\ poll_is_None(running_process)
       IN  IF ~stopped
           THEN /\ running_process' = NoProcess
                /\ RUNNING_CODE' = FALSE
           ELSE UNCHANGED <<running_process, RUNNING_CODE>>
    /\ run_pc' = "popup"
    /\ returned' = "True"
    /\ UNCHANGED <<children, child>>
    /\ UNCHANGED notRun

\* the child ends, by itself or on CTRL+C
ChildExit ==
    /\ \E c \in 1..Len(children) :
          /\ children[c] = "running"
          /\ children' = [children EXCEPT ![c] = "exited"]
    /\ UNCHANGED <<run_pc, running_process, RUNNING_CODE, child, returned>>
    /\ UNCHANGED notRun

\* CTRL+Z while the code runs: the child is stopped and RUNNING_CODE is
\* turned off, which ends the loop of wait_on_child
Suspend ==
    /\ run_pc = "wait"
    /\ children[child] = "running"
    /\ children' = [children EXCEPT ![child] = "stopped"]
    /\ RUNNING_CODE' = FALSE
    /\ UNCHANGED <<run_pc, running_process, child, returned>>
    /\ UNCHANGED notRun

\* the grading popup closes: SharedData.running_process = None
ResetRunningProcess ==
    /\ run_pc = "popup"
    /\ running_process # NoProcess
    /\ running_process' = NoProcess
    /\ UNCHANGED <<run_pc, RUNNING_CODE, children, child, returned>>
    /\ UNCHANGED notRun

---------------------------------------------------------------------------
(* admin.py: attendance_score, the extension of the grading scheme *)

\* the schemes that can be selected or entered: two or more integers
Schemes ==
    UNION {[1..n -> -1..MaxSchemePoints] : n \in 2..MaxSchemeLen}

\* every scheme whose last difference is positive has reached a negative
\* entry before it is this long; the list is not followed beyond it
ExtendCap == MaxSchemeLen + MaxSchemePoints + 2

Last(seq) == seq[Len(seq)]

\* delta = points_by_classes_missed[-2] - points_by_classes_missed[-1]
SetDelta ==
    /\ att_pc = "scheme"
    /\ delta' = points_by_classes_missed[Len(points_by_classes_missed) - 1]
                   - Last(points_by_classes_missed)
    /\ att_pc' = "extend"
    /\ UNCHANGED points_by_classes_missed
    /\ UNCHANGED notAtt

\* one turn of `while points_by_classes_missed[-1] >= 0`
Extend ==
    /\ att_pc = "extend"
    /\ Last(points_by_classes_missed) >= 0
    /\ Len(points_by_classes_missed) < ExtendCap
    /\ points_by_classes_missed' =
          Append(points_by_classes_missed,
                 Last(points_by_classes_missed) - delta)
    /\ UNCHANGED <<att_pc, delta>>
    /\ UNCHANGED notAtt

\* the loop has ended: del points_by_classes_missed[-1]
DeleteLast ==
    /\ att_pc = "extend"
    /\ Last(points_by_classes_missed) < 0
    /\ points_by_classes_missed' =
          SubSeq(points_by_classes_missed, 1,
                 Len(points_by_classes_missed) - 1)
    /\ att_pc' = "extended"
    /\ UNCHANGED delta
    /\ UNCHANGED notAtt

---------------------------------------------------------------------------

LockInit ==
    /\ lockDir = {}
    /\ lockLog = <<>>
    /\ now = 0
    /\ proc = [g \in Graders |-> Idle]

ScoreOff ==
    /\ sc_pc = "off"
    /\ sc_names = {}
    /\ sc_student = <<>>
    /\ sc_score = 0
    /\ sc_points_out_of = <<>>

MapOff ==
    /\ m_pc = "off"
    /\ canvas_students = <<>>
    /\ zybook_students = <<>>
    /\ mapping = <<>>
    /\ unmatched_canvas_ids = {}
    /\ unmatched_zybook_ids = {}
    /\ m_todo = {}

EditOff ==
    /\ ed_pc = "off"
    /\ ed_seq1 = <<>>
    /\ ed_seq2 = <<>>
    /\ ed_result = 0

SubOff ==
    /\ sub_pc = "off"
    /\ response = [parts |-> <<>>, score |-> 0, max_score |-> 0]
    /\ options = NoOptions
    /\ flag = {}
    /\ files_directory = {}

AdmOff ==
    /\ canvas_master = "ok"
    /\ adm_pc = "off"
    /\ adm_op = None
    /\ written = {}

ReadOff ==
    /\ rd_pc = "off"
    /\ rd_rows = <<>>
    /\ rd_i = 1
    /\ rd_roster = <<>>
    /\ bad_id_count = 0

MercyOff ==
    /\ mm_pc = "off"
    /\ mm_student = <<>>
    /\ mm_points_out_of = <<>>

SearchOff ==
    /\ ss_pc = "off"
    /\ ss_students = 0
    /\ student_num = 1
    /\ checks = <<>>
    /\ csv_log = <<>>
    /\ ss_clock = 0
    /\ ss_timeouts = 0

RunOff ==
    /\ run_pc = "off"
    /\ running_process = NoProcess
    /\ RUNNING_CODE = FALSE
    /\ children = <<>>
    /\ child = NoProcess
    /\ returned = None

AttOff ==
    /\ att_pc = "off"
    /\ points_by_classes_missed = <<>>
    /\ delta = 0

ToolsOff ==
    /\ SearchOff
    /\ RunOff
    /\ AttOff

\* the components that are not running
BatchOff ==
    /\ ScoreOff
    /\ MapOff
    /\ EditOff
    /\ SubOff
    /\ AdmOff
    /\ ReadOff
    /\ MercyOff

Off ==
    /\ BatchOff
    /\ ToolsOff

Init ==
    /\ LockInit
    /\ Off

\* the grader processes, each following the flows
Next ==
    \/ \E g \in Graders : student_select_fn(g)
    \/ \E g \in Graders : lock_student_callback(g)
    \/ \E g \in Graders : grade(g)
    \/ \E g \in Graders : Check1(g)
    \/ \E g \in Graders : Recent(g)
    \/ \E g \in Graders : Check2(g)
    \/ \E g \in Graders : Lock(g)
    \/ \E g \in Graders : Download(g)
    \/ \E g \in Graders : ClosePopup(g)
    \/ \E g \in Graders : grade_pair_programming(g)
    \/ \E g \in Graders : Unlock(g)
    \/ Tick

Spec == Init /\ [][Next]_vars

\* the Lock Manager's operations, called in any order
NextApi ==
    \/ \E g \in Graders, s \in Students, l \in LabArgs : ApiLock(g, s, l)
    \/ \E g \in Graders, s \in Students, l \in LabArgs : ApiUnlock(g, s, l)
    \/ \E g \in Graders : unlock_all_labs_by_grader(g)
    \/ unlock_all_labs
    \/ \E f \in lockDir : remove_lock_file(f)
    \/ Tick

SpecApi == Init /\ [][NextApi]_vars

\* _give_score_to_assignments called with a target fraction in [0, 1], a
\* non-empty group of assignments with positive maxima, and a student row
\* holding any scores
InitScore ==
    /\ LockInit
    /\ sc_pc = "ready"
    /\ sc_names \in SUBSET Assignments \ {{}}
    /\ sc_points_out_of \in [Assignments -> 1..MaxPoints]
    /\ sc_student \in [Assignments -> 0..(ScoreDen * MaxPoints)]
    /\ \A a \in Assignments : sc_student[a] <= ScoreDen * sc_points_out_of[a]
    /\ sc_score \in Fractions
    /\ MapOff
    /\ EditOff
    /\ SubOff
    /\ AdmOff
    /\ ReadOff
    /\ MercyOff
    /\ ToolsOff

NextScore ==
    GiveScore

SpecScore == InitScore /\ [][NextScore]_vars

\* StudentMapping(canvas_students, zybook_students) is constructed:
\* _create_mapping has set its three fields and enters the first loop
InitMapping ==
    /\ LockInit
    /\ ScoreOff
    /\ \E rows \in SUBSET CanvasPool, ids \in SUBSET ZybookPool :
          /\ rows # {} /\ Cardinality(rows) <= MaxCanvas
          /\ Cardinality(ids) <= MaxZybook
          /\ canvas_students = CanvasRoster(rows)
          /\ zybook_students = ZybookRoster(ids)
    /\ m_pc = "exact"
    /\ mapping = <<>>
    /\ unmatched_canvas_ids = DOMAIN canvas_students
    /\ unmatched_zybook_ids = DOMAIN zybook_students
    /\ m_todo = DOMAIN canvas_students
    /\ EditOff
    /\ SubOff
    /\ AdmOff
    /\ ReadOff
    /\ MercyOff
    /\ ToolsOff

NextMapping ==
    \/ MatchExact
    \/ MatchStripped
    \/ MatchFuzzy

SpecMapping == InitMapping /\ [][NextMapping]_vars

InitEdit ==
    /\ LockInit
    /\ ScoreOff
    /\ MapOff
    /\ ed_pc = "call"
    /\ ed_seq1 \in Seqs
    /\ ed_seq2 \in Seqs
    /\ ed_result = 0
    /\ SubOff
    /\ AdmOff
    /\ ReadOff
    /\ MercyOff
    /\ ToolsOff

NextEdit == EditDistance

SpecEdit == InitEdit /\ [][NextEdit]_vars

\* a Submission is built from the platform's response for a lab
InitSubmission ==
    /\ LockInit
    /\ ScoreOff
    /\ MapOff
    /\ EditOff
    /\ sub_pc = "construct"
    /\ \E n \in 1..MaxParts, parts \in [1..MaxParts -> Parts] :
          response = [parts |-> SubSeq(parts, 1, n), score |-> 0,
                      max_score |-> 0]
    /\ options \in OptionBags
    /\ flag = {"OK"}
    /\ files_directory = {}
    /\ AdmOff
    /\ ReadOff
    /\ MercyOff
    /\ ToolsOff

NextSubmission == construct_submission

SpecSubmission == InitSubmission /\ [][NextSubmission]_vars

\* the administrator's menu, with the gradebook file in any condition
InitAdmin ==
    /\ LockInit
    /\ ScoreOff
    /\ MapOff
    /\ EditOff
    /\ SubOff
    /\ canvas_master \in FileStates
    /\ adm_pc = "idle"
    /\ adm_op = None
    /\ written = {}
    /\ ReadOff
    /\ MercyOff
    /\ ToolsOff

NextAdmin ==
    \/ pull
    \/ find_unmatched_students
    \/ report_gaps
    \/ attendance_score
    \/ midterm_mercy
    \/ Finish
    \/ ChangeFile

SpecAdmin == InitAdmin /\ [][NextAdmin]_vars

\* a roster file with at least one row is read by one of the two readers
InitRead ==
    /\ LockInit
    /\ ScoreOff
    /\ MapOff
    /\ EditOff
    /\ SubOff
    /\ AdmOff
    /\ rd_pc \in {"read_canvas_csv", "parse_completion_report"}
    /\ \E n \in 1..MaxRows, rows \in [1..MaxRows -> IdStrings] :
          rd_rows = SubSeq(rows, 1, n)
    /\ rd_i = 1
    /\ rd_roster = <<>>
    /\ bad_id_count = 0
    /\ MercyOff
    /\ ToolsOff

NextRead ==
    \/ ReadCanvasRow
    \/ ParseReportRow

SpecRead == InitRead /\ [][NextRead]_vars

\* a gradebook row with a score for every exam assignment; the final
\* exam's combined score is a multiple of 1/ScoreDen
InitMercy ==
    /\ LockInit
    /\ ScoreOff
    /\ MapOff
    /\ EditOff
    /\ SubOff
    /\ AdmOff
    /\ ReadOff
    /\ ToolsOff
    /\ mm_pc = "ready"
    /\ mm_points_out_of \in [ExamAssignments -> 1..MaxPoints]
    /\ mm_student \in [ExamAssignments -> 0..(ScoreDen * MaxPoints)]
    /\ \A a \in ExamAssignments :
          mm_student[a] <= ScoreDen * mm_points_out_of[a]
    /\ LET final_score == _combined_score(final_assignments, mm_student,
                                          mm_points_out_of)
       IN  (final_score.num * ScoreDen) % final_score.den = 0

NextMercy == _apply_midterm_mercy

SpecMercy == InitMercy /\ [][NextMercy]_vars

\* a search through a roster of one or more students
InitSearch ==
    /\ LockInit
    /\ BatchOff
    /\ ss_pc = "search"
    /\ ss_students \in 1..MaxStudents
    /\ student_num = 1
    /\ checks = <<>>
    /\ csv_log = <<>>
    /\ ss_clock = 0
    /\ ss_timeouts = 0
    /\ RunOff
    /\ AttOff

NextSearch ==
    \/ CheckStudent
    \/ Sleep

SpecSearch == InitSearch /\ [][NextSearch]_vars

\* the search runs on its own: a step that can be taken is taken
SpecSearchLive == SpecSearch /\ WF_vars(NextSearch)

\* a grading popup is open and no code has been run yet
InitRun ==
    /\ LockInit
    /\ BatchOff
    /\ SearchOff
    /\ run_pc = "popup"
    /\ running_process = NoProcess
    /\ RUNNING_CODE = FALSE
    /\ children = <<>>
    /\ child = NoProcess
    /\ returned = None
    /\ AttOff

NextRun ==
    \/ compile_and_run_code
    \/ wait_on_child
    \/ ChildExit
    \/ Suspend
    \/ ResetRunningProcess

SpecRun == InitRun /\ [][NextRun]_vars

\* attendance_score with a scheme chosen
InitScheme ==
    /\ LockInit
    /\ BatchOff
    /\ SearchOff
    /\ RunOff
    /\ att_pc = "scheme"
    /\ points_by_classes_missed \in Schemes
    /\ delta = 0

NextScheme ==
    \/ SetDelta
    \/ Extend
    \/ DeleteLast

SpecScheme == InitScheme /\ [][NextScheme]_vars

\* attendance_score runs on its own: a step that can be taken is taken
SpecSchemeLive == SpecScheme /\ WF_vars(NextScheme)

TypeOK ==
    /\ now \in 0..(MaxTicks * TickMinutes)
    /\ Len(lockLog) <= MaxLog

---------------------------------------------------------------------------
(* Properties of the Lock Manager *)

LastRow == lockLog[Len(lockLog)]

\* C1: in the state right after grader g's lock(student, lab) returns,
\* is_locked(student, lab) is true for every grader who asks.
C1_LockedAfterLock ==
    [][\A g \in Graders, s \in Students, l \in LabArgs :
          ApiLock(g, s, l) => \A q \in Queriers : is_locked(q, s, l)']_vars

\* C1 witness: a lock on a lab has just been made by ta1 and ta2 asks
C1_Witness ==
    /\ lockLog # <<>>
    /\ LastRow.lock = "LOCK" /\ LastRow.ta = "ta1" /\ LastRow.lab \in Labs
    /\ get_lock_file_path("ta1", LastRow.name, LastRow.lab) \in lockDir
    /\ is_locked("ta2", LastRow.name, LastRow.lab)

\* C2 as stated: right after any grader's unlock(student, lab) returns,
\* is_locked(student, lab) is false, also when grader processes interleave.
C2_Original ==
    [][\A g \in Graders, s \in Students, l \in LabArgs :
          (Unlock(g) /\ Target(g) = s /\ proc[g].lab = l)
             => \A q \in Queriers : ~is_locked(q, s, l)']_vars

\* C2 amended: right after grader g's unlock(student, lab) returns, g's own
\* marker for (student, lab) does not exist, and is_locked(student, lab) is
\* true exactly when another grader's marker for (student, lab) exists.
C2_UnlockRemovesOwnMarker ==
    [][\A g \in Graders, s \in Students, l \in LabArgs :
          (Unlock(g) /\ Target(g) = s /\ proc[g].lab = l)
             => /\ get_lock_file_path(g, s, l) \notin lockDir'
                /\ \A q \in Queriers :
                      is_locked(q, s, l)' <=>
                         \E h \in Graders \ {g} :
                            get_lock_file_path(h, s, l) \in lockDir']_vars

\* C2 witness: ta1 has just unlocked (s1, l1), which ta2 still holds
C2_Witness ==
    /\ lockLog # <<>>
    /\ LastRow.lock = "UNLOCK" /\ LastRow.ta = "ta1"
    /\ LastRow.name = "s1" /\ LastRow.lab = "l1"
    /\ proc["ta1"].pc = "idle"
    /\ get_lock_file_path("ta1", "s1", "l1") \notin lockDir
    /\ get_lock_file_path("ta2", "s1", "l1") \in lockDir
    /\ is_locked("ta1", "s1", "l1")

\* C3: when a grader who passed both checks calls lock(student, lab) while
\* another grader's marker for (student, lab) exists, the call succeeds, no
\* marker is lost, and the two graders' markers are different files.
C3_RaceLock ==
    [][\A g \in Graders, h \in Graders, s \in Students, l \in LabArgs :
          (/\ h # g
           /\ Lock(g) /\ Target(g) = s /\ proc[g].lab = l
           /\ get_lock_file_path(h, s, l) \in lockDir)
             => /\ get_lock_file_path(g, s, l) \in lockDir'
                /\ get_lock_file_path(h, s, l) \in lockDir'
                /\ get_lock_file_path(h, s, l) # get_lock_file_path(g, s, l)
                /\ lockDir \subseteq lockDir']_vars

\* C3 witness: ta1 and ta2 both went through the checks of the grading
\* flow for (s1, l1), both locked, and both markers exist
C3_Witness ==
    /\ \A g \in Graders :
          /\ proc[g].kind = "grade" /\ proc[g].pc = "popup"
          /\ proc[g].student = "s1" /\ proc[g].lab = "l1"
          /\ proc[g].second = None
          /\ get_lock_file_path(g, "s1", "l1") \in lockDir
    /\ Len(lockLog) = 2
    /\ lockLog[1].ta # lockLog[2].ta

\* C4 as stated: once a flow of a grader has ended, no marker that the
\* grader's flows created exists.
C4_Original ==
    \A g \in Graders :
       proc[g].pc = "idle" => ~ \E l \in get_lock_files : l[1] = g

\* the rows of the log about (student, lab) that a query by netid with
\* this window counts
Counted(student, lab, netid, range) ==
    {i \in 1..Len(lockLog) :
        /\ lockLog[i].name = student /\ lockLog[i].lab = lab
        /\ lockLog[i].ta # netid
        /\ now - lockLog[i].time < range}

\* the log without the rows written by netid
RECURSIVE Without(_, _)
Without(file, netid) ==
    IF file = <<>> THEN <<>>
    ELSE IF file[1].ta = netid THEN Without(Tail(file), netid)
         ELSE <<file[1]>> \o Without(Tail(file), netid)

\* C5: a positive answer of was_recently_locked never names the grader who
\* asks, and the answer is the one the log without that grader's own rows
\* gives.
C5_SelfLocksExcluded ==
    \A s \in Students, l \in LabArgs, g \in Queriers, w \in Windows :
       LET r == was_recently_locked(s, l, g, w)
       IN  /\ r.found => r.ta # g
           /\ r = ReadLockLog(Without(lockLog, g), s, l, g, w)

\* C5 witness: ta1's own row on (s1, l1) is the latest and lies in the
\* window; ta1 gets a negative answer and ta2 a positive one
C5_Witness ==
    /\ lockLog # <<>>
    /\ LastRow.ta = "ta1" /\ LastRow.name = "s1" /\ LastRow.lab = "l1"
    /\ ~was_recently_locked("s1", "l1", "ta1", DEFAULT_RANGE).found
    /\ was_recently_locked("s1", "l1", "ta2", DEFAULT_RANGE).found

\* the rows of the log about (student, lab)
RowsAbout(student, lab) ==
    {i \in 1..Len(lockLog) :
        lockLog[i].name = student /\ lockLog[i].lab = lab}

Max(S) == CHOOSE x \in S : \A y \in S : y <= x

\* grader a locked and then unlocked (student, lab), nobody else touched
\* it, and the unlock is less than range minutes old
JustFinished(a, student, lab, range) ==
    LET about == RowsAbout(student, lab)
    IN  /\ about # {}
        /\ \A i \in about : lockLog[i].ta = a
        /\ lockLog[Max(about)].lock = "UNLOCK"
        /\ \E i \in about : lockLog[i].lock = "LOCK" /\ i < Max(about)
        /\ now - lockLog[Max(about)].time < range

C13_Original ==
    \A s \in Students, q \in Queriers, w \in Windows :
       was_recently_locked(s, None, q, w).found
          => Counted(s, "N/A", q, w) # {}

\* some grader's marker file for exactly (student, lab) exists
MarkerExists(student, lab) ==
    \E g \in Graders : get_lock_file_path(g, student, lab) \in lockDir

\* C14: in every reachable state is_locked(S, L) is true exactly when some
\* grader's marker file for exactly (S, L) exists, whatever the audit log
\* holds; a lab lock on S does not make the email query is_locked(S) true
\* and an email lock on S does not make is_locked(S, L) true.
C14_LockedIffMarker ==
    \A q \in Queriers, s \in Students, l \in LabArgs :
       is_locked(q, s, l) <=> MarkerExists(s, l)

\* C14 witness: s1 is locked for lab l1 and not for email, s2 for email and
\* not for lab l1
C14_Witness ==
    /\ MarkerExists("s1", "l1") /\ ~MarkerExists("s1", None)
    /\ is_locked("ta3", "s1", "l1") /\ ~is_locked("ta3", "s1", None)
    /\ MarkerExists("s2", None) /\ ~MarkerExists("s2", "l1")
    /\ is_locked("ta3", "s2", None) /\ ~is_locked("ta3", "s2", "l1")

\* C15 as stated: get_locked_netid(S, L) returns "" exactly when
\* is_locked(S, L) is false, and otherwise the grader of a marker file for
\* exactly (S, L), never that of a lab lock when the email lock is queried.
C15_Original ==
    \A q \in Queriers, s \in Students, l \in LabArgs :
       \A netid \in get_locked_netid(q, s, l) :
          /\ netid = "" <=> ~is_locked(q, s, l)
          /\ netid # "" => get_lock_file_path(netid, s, l) \in lockDir

\* the step appends exactly one record to the audit log
Appends(student, lab, grader, tag) ==
    /\ Len(lockLog') = Len(lockLog) + 1
    /\ lockLog'[Len(lockLog')].name = student
    /\ lockLog'[Len(lockLog')].lab = (IF lab = None THEN "N/A" ELSE lab)
    /\ lockLog'[Len(lockLog')].ta = grader
    /\ lockLog'[Len(lockLog')].lock = tag

\* C16: the audit log is append-only across every sequence of Lock Manager
\* operations: each lock and each unlock appends exactly one record
\* (student, lab or "N/A", calling grader, LOCK or UNLOCK),
\* unlock_all_labs_by_grader, unlock_all_labs and remove_lock_file append
\* nothing, and the log of a state extends the log of every earlier state.
C16_AppendOnly ==
    [][/\ Len(lockLog') >= Len(lockLog)
       /\ SubSeq(lockLog', 1, Len(lockLog)) = lockLog
       /\ \A g \in Graders, s \in Students, l \in LabArgs :
             /\ ApiLock(g, s, l) => Appends(s, l, g, "LOCK")
             /\ ApiUnlock(g, s, l) => Appends(s, l, g, "UNLOCK")
       /\ (\/ \E g \in Graders : unlock_all_labs_by_grader(g)
           \/ unlock_all_labs
           \/ \E f \in lockDir : remove_lock_file(f))
          => lockLog' = lockLog]_vars

\* C16 witness: ta1's email lock of s1 and ta2's unlock of (s2, l1) are
\* the two records of the log, and ta1's marker has been removed by an
\* operation that left no record
C16_Witness ==
    /\ Len(lockLog) = 2
    /\ lockLog[1].lock = "LOCK" /\ lockLog[1].ta = "ta1"
    /\ lockLog[1].name = "s1" /\ lockLog[1].lab = "N/A"
    /\ lockLog[2].lock = "UNLOCK" /\ lockLog[2].ta = "ta2"
    /\ lockLog[2].name = "s2" /\ lockLog[2].lab = "l1"
    /\ lockDir = {}

\* C23 as stated: is_locked is evaluated once more after the popups, as
\* the last step before lock(); if at that check a marker for (S, L) of a
\* different grader exists, the flow refuses and this grader does not go
\* on to lock().
C23_Original ==
    [][\A g \in Graders :
          (/\ Check2(g)
           /\ \E h \in Graders :
                 /\ h # g
                 /\ get_lock_file_path(h, Target(g), proc[g].lab) \in lockDir)
             => proc'[g].pc # "lock"]_vars

---------------------------------------------------------------------------
(* Properties of the operations that read the gradebook CSV *)

\* C17 as stated: when the gradebook CSV is absent or not readable,
\* read_canvas_csv raises StoppingException and every operation that calls
\* it (pull, find_unmatched_students, report_gaps, attendance_score,
\* midterm_mercy) catches it and aborts without writing an output file and
\* without the exception leaving the operation.
C17_Original ==
    /\ canvas_master # "ok" => read_canvas_csv = "StoppingException"
    /\ adm_pc # "StoppingException"
    /\ adm_pc = "work" => canvas_master = "ok"

---------------------------------------------------------------------------
(* Properties of the roster readers *)

\* the rows whose id is missing or not a number
BadRows == {i \in 1..Len(rd_rows) : ~IsNumeric(rd_rows[i])}

\* C18 as stated: reading either roster never fails on and never drops a
\* row whose id is missing or non-numeric; every such row gets a key of its
\* own and is in the resulting roster.
C18_Original ==
    /\ rd_pc # "ValueError"
    /\ rd_pc = "done" =>
          \A i \in BadRows : \E key \in DOMAIN rd_roster : rd_roster[key] = i

---------------------------------------------------------------------------
(* Properties of the score redistribution *)

\* C7 as stated: after _give_score_to_assignments the group's combined
\* score equals the target fraction and no score exceeds its maximum.
C7_Original ==
    sc_pc = "done" =>
       LET c == _combined_score(sc_names, sc_student, sc_points_out_of)
       IN  /\ c.num * ScoreDen = sc_score * c.den
           /\ \A a \in sc_names :
                 sc_student[a] <= ScoreDen * sc_points_out_of[a]

---------------------------------------------------------------------------
(* Properties of the roster reconciliation *)

Key100 == IntKey(int(<<1, 0, 0>>))
Key101 == IntKey(int(<<1, 0, 1>>))
Key102 == IntKey(int(<<1, 0, 2>>))
Key10199 == IntKey(int(<<1, 0, 1, 9, 9>>))
Key10191 == IntKey(int(<<1, 0, 1, 9, 1>>))
KeyAb == StrKey(<<10, 11>>)
Key1012 == IntKey(int(<<1, 0, 1, 2>>))
Key99199 == IntKey(int(<<9, 9, 1, 9, 9>>))

\* the fields as _create_mapping first sets them
StartFields ==
    [mapping |-> <<>>, unmatched_canvas_ids |-> DOMAIN canvas_students,
     unmatched_zybook_ids |-> DOMAIN zybook_students, raised |-> FALSE]

\* C8 as stated: for given rosters the finished mapping and both unmatched
\* sets do not depend on the order in which the loops visit the ids; every
\* completed run ends as the run in one fixed order does.
C8_Original ==
    m_pc = "done" =>
       LET fixed == InOrder(StartFields, "exact", DOMAIN canvas_students)
       IN  /\ ~fixed.raised
           /\ mapping = fixed.mapping
           /\ unmatched_canvas_ids = fixed.unmatched_canvas_ids
           /\ unmatched_zybook_ids = fixed.unmatched_zybook_ids

\* C9: whenever the mapping completes, a gradebook id that is also a
\* platform id is mapped to the platform row of that very id, whatever
\* login-id, suffix or near-miss candidates the rosters hold.
C9_ExactMatchWins ==
    m_pc = "done" =>
       \A id \in DOMAIN canvas_students \cap DOMAIN zybook_students :
          /\ id \in DOMAIN mapping
          /\ mapping[id] = zybook_students[id]
          /\ id \notin unmatched_canvas_ids
          /\ id \notin unmatched_zybook_ids

\* C9 witness: the mapping completed with gradebook id 100 exact-matched
\* although the platform roster also holds that student's login id and a
\* number within the edit distance cutoff of 100
C9_Witness ==
    /\ m_pc = "done"
    /\ Key100 \in DOMAIN canvas_students
    /\ {Key100, KeyAb, Key1012} \subseteq DOMAIN zybook_students
    /\ canvas_students[Key100].sis_login_id = KeyAb.s
    /\ edit_distance(zybook_students[Key1012].student_id,
                     canvas_students[Key100].sis_user_id) < EDIT_DISTANCE_CUTOFF
    /\ mapping[Key100] = zybook_students[Key100]

\* the platform id the second loop visits in this step
Visited == m_todo \ m_todo'

\* the digits of a platform row's Student ID without the last two
Reduced(zybook_id) ==
    AllButLast(Digits(zybook_students[zybook_id].student_id), 2)

\* C10: a platform id left unmatched by the exact and login-id steps has its
\* last two digits removed, and if the reduced number is a still-unmatched
\* gradebook id it is matched to that id.  With gradebook ids {100, 101,
\* 102} and platform ids {100, 10199}: 100 -> 100, 101 -> 10199, 102 is the
\* only unmatched gradebook id and no platform id is unmatched.
C10_SuffixMatch ==
    /\ [][MatchStripped =>
            \A z \in Visited :
               /\ z \in unmatched_zybook_ids
               /\ (/\ Reduced(z) # <<>>
                   /\ IntKey(int(Reduced(z))) \in unmatched_canvas_ids)
                  => /\ m_pc' = "strip"
                     /\ IntKey(int(Reduced(z))) \in DOMAIN mapping'
                     /\ mapping'[IntKey(int(Reduced(z)))] = zybook_students[z]
                     /\ IntKey(int(Reduced(z))) \notin unmatched_canvas_ids'
                     /\ z \notin unmatched_zybook_ids']_vars
    /\ [](/\ m_pc = "done"
          /\ DOMAIN canvas_students = {Key100, Key101, Key102}
          /\ DOMAIN zybook_students = {Key100, Key10199}
          => /\ DOMAIN mapping = {Key100, Key101}
             /\ mapping[Key100].id_number = Key100
             /\ mapping[Key101].id_number = Key10199
             /\ unmatched_canvas_ids = {Key102}
             /\ unmatched_zybook_ids = {})

\* C10 witness: the example rosters, reconciled, with 101 matched to 10199
C10_Witness ==
    /\ m_pc = "done"
    /\ DOMAIN canvas_students = {Key100, Key101, Key102}
    /\ DOMAIN zybook_students = {Key100, Key10199}
    /\ mapping[Key101].student_id = <<1, 0, 1, 9, 9>>
    /\ unmatched_canvas_ids = {Key102}

\* the platform ids the mapping has used
MatchedZybookIds == {mapping[id].id_number : id \in DOMAIN mapping}

\* C20: whenever reconciliation completes, no platform row is the image of
\* two gradebook ids, the mapping's keys and unmatched_canvas_ids are
\* disjoint and together are the gradebook ids, and the matched platform
\* ids and unmatched_zybook_ids are disjoint and together are the platform
\* ids.
C20_Partition ==
    m_pc = "done" =>
       /\ \A id1, id2 \in DOMAIN mapping :
             mapping[id1] = mapping[id2] => id1 = id2
       /\ DOMAIN mapping \cap unmatched_canvas_ids = {}
       /\ DOMAIN mapping \cup unmatched_canvas_ids = DOMAIN canvas_students
       /\ MatchedZybookIds \cap unmatched_zybook_ids = {}
       /\ MatchedZybookIds \cup unmatched_zybook_ids = DOMAIN zybook_students

\* C20 witness: a completed reconciliation with two matched pairs, one of
\* them by login id and one by suffix, and a platform id left unmatched
C20_Witness ==
    /\ m_pc = "done"
    /\ Cardinality(DOMAIN mapping) = 2
    /\ KeyAb \in MatchedZybookIds
    /\ Key101 \in DOMAIN mapping
    /\ unmatched_zybook_ids \cap {Key10199, Key10191} # {}

\* the edit distance between a platform row's digits and a gradebook row's
\* id string
Distance(G, P) ==
    edit_distance(Digits(zybook_students[P].student_id),
                  canvas_students[G].sis_user_id)

\* (G, P) is a candidate pair of the ids that are unmatched now
Candidate(G, P) ==
    /\ G \in unmatched_canvas_ids
    /\ P \in unmatched_zybook_ids
    /\ \A i \in 1..Len(zybook_students[P].student_id) :
          ~isalpha(zybook_students[P].student_id[i])
    /\ Distance(G, P) <= 3

ConfirmedPair(G, P) ==
    /\ Candidate(G, P)
    /\ \A P2 \in unmatched_zybook_ids : Candidate(G, P2) => P2 = P
    /\ \A G2 \in unmatched_canvas_ids : Candidate(G2, P) => G2 = G

\* C21: in the fuzzy step a pair (G, P) of ids left unmatched is a
\* candidate iff P's id string has no letters and the edit distance between
\* P's digits and G's id string is below 4; it is matched iff P is G's only
\* candidate and G is the only gradebook id P is a candidate for; every id
\* of an ambiguous candidate relation stays unmatched.
C21_FuzzyStep ==
    [][MatchFuzzy =>
          /\ m_pc' = "done"
          /\ \A G \in unmatched_canvas_ids, P \in unmatched_zybook_ids :
                IF ConfirmedPair(G, P)
                THEN /\ G \in DOMAIN mapping'
                     /\ mapping'[G] = zybook_students[P]
                     /\ G \notin unmatched_canvas_ids'
                     /\ P \notin unmatched_zybook_ids'
                ELSE ~(G \in DOMAIN mapping' /\ mapping'[G] = zybook_students[P])
          /\ \A G \in unmatched_canvas_ids :
                (~ \E P \in unmatched_zybook_ids : ConfirmedPair(G, P))
                   => G \in unmatched_canvas_ids' /\ G \notin DOMAIN mapping'
          /\ \A P \in unmatched_zybook_ids :
                (~ \E G \in unmatched_canvas_ids : ConfirmedPair(G, P))
                   => P \in unmatched_zybook_ids'
          /\ \A G \in DOMAIN mapping :
                G \in DOMAIN mapping' /\ mapping'[G] = mapping[G]]_vars

\* C21 witness: gradebook id 102 has been matched to platform id 10191, at
\* distance 3, and platform id 99199, at distance 4, is left unmatched
C21_Witness ==
    /\ m_pc = "done"
    /\ Key102 \in DOMAIN mapping
    /\ mapping[Key102].id_number = Key10191
    /\ Distance(Key102, Key10191) = 3
    /\ Key99199 \in unmatched_zybook_ids
    /\ Distance(Key102, Key99199) = 4

\* the login id of a gradebook row, as a key
LoginKey(G) == StrKey(canvas_students[G].sis_login_id)

\* C22: the steps run in priority order on the unmatched remainder only: a
\* round of the suffix step or the fuzzy step never raises, leaves every
\* pair matched before as it is, only pairs ids that were unmatched, and
\* returns no id to the unmatched sets; when the mapping completes, an id
\* that the exact or the login-id step matches is held by that step's pair.
C22_PriorityOrder ==
    /\ [][(MatchStripped \/ MatchFuzzy) =>
             /\ m_pc' # "raised"
             /\ \A G \in DOMAIN mapping :
                   G \in DOMAIN mapping' /\ mapping'[G] = mapping[G]
             /\ \A G \in DOMAIN mapping' \ DOMAIN mapping :
                   /\ G \in unmatched_canvas_ids
                   /\ G \notin unmatched_canvas_ids'
                   /\ mapping'[G].id_number \in unmatched_zybook_ids
                   /\ mapping'[G].id_number \notin unmatched_zybook_ids'
             /\ unmatched_canvas_ids' =
                   unmatched_canvas_ids \ (DOMAIN mapping' \ DOMAIN mapping)
             /\ unmatched_zybook_ids' =
                   unmatched_zybook_ids \
                      {mapping'[G].id_number :
                          G \in DOMAIN mapping' \ DOMAIN mapping}]_vars
    /\ [](m_pc = "done" =>
             \A G \in DOMAIN canvas_students :
                /\ G \in DOMAIN zybook_students
                      => mapping[G] = zybook_students[G]
                /\ (G \notin DOMAIN zybook_students
                      /\ LoginKey(G) \in DOMAIN zybook_students)
                      => mapping[G] = zybook_students[LoginKey(G)])

\* C22 witness: 101 is matched exactly although platform id 10199 reduces
\* to it and 1012 is within the cutoff of it; 10199 and 1012 are left over
C22_Witness ==
    /\ m_pc = "done"
    /\ Key101 \in DOMAIN mapping
    /\ mapping[Key101].id_number = Key101
    /\ {Key10199, Key1012} \subseteq unmatched_zybook_ids
    /\ Distance(Key101, Key1012) < 4

---------------------------------------------------------------------------
(* Properties of edit_distance *)

\* t comes from s by one insertion, deletion or substitution
Drop(s, i) == [k \in 1..(Len(s) - 1) |-> IF k < i THEN s[k] ELSE s[k + 1]]

OneEdit(s, t) ==
    \/ /\ Len(t) = Len(s)
       /\ Cardinality({i \in 1..Len(s) : s[i] # t[i]}) = 1
    \/ /\ Len(t) = Len(s) - 1
       /\ \E i \in 1..Len(s) : t = Drop(s, i)
    \/ /\ Len(t) = Len(s) + 1
       /\ \E i \in 1..Len(t) : s = Drop(t, i)

\* the least number of edits that lead from the sequences of S to target;
\* a shortest script never needs a sequence longer than the longer of the
\* two, nor an element that occurs in neither
RECURSIVE EditsTo(_, _, _)
EditsTo(S, target, k) ==
    IF target \in S THEN k
    ELSE EditsTo(S \cup {t \in Seqs : \E s \in S : OneEdit(s, t)}, target, k + 1)

Levenshtein(seq1, seq2) == EditsTo({seq1}, seq2, 0)

\* C11: edit_distance(seq1, seq2) is the Levenshtein distance, for sequences
\* of equal or different lengths: 0 for identical sequences, 1 for
\* sequences that differ by one substitution.
C11_EditDistance ==
    ed_pc = "done" =>
       /\ ed_result = Levenshtein(ed_seq1, ed_seq2)
       /\ ed_seq1 = ed_seq2 => ed_result = 0
       /\ (/\ Len(ed_seq1) = Len(ed_seq2)
           /\ Cardinality({i \in 1..Len(ed_seq1) : ed_seq1[i] # ed_seq2[i]}) = 1)
          => ed_result = 1

\* C11 witness: two sequences of different lengths, two edits apart
C11_Witness ==
    /\ ed_pc = "done"
    /\ ed_seq1 = <<0, 1, 0>>
    /\ ed_seq2 = <<1, 1>>
    /\ ed_result = 2

---------------------------------------------------------------------------
(* Properties of Submission.construct_submission *)

Submitted(parts) == {i \in 1..Len(parts) : parts[i].code # NO_SUBMISSION}

RECURSIVE SumMax(_, _)
SumMax(parts, I) ==
    IF I = {} THEN 0
    ELSE LET i == CHOOSE i \in I : TRUE
         IN  parts[i].max_score + SumMax(parts, I \ {i})

RECURSIVE SumScore(_, _)
SumScore(parts, I) ==
    IF I = {} THEN 0
    ELSE LET i == CHOOSE i \in I : TRUE
         IN  parts[i].score + SumScore(parts, I \ {i})

SomePartIncomplete(parts) ==
    \E i \in 1..Len(parts) :
       parts[i].code = NO_SUBMISSION \/ parts[i].max_score = 0

\* C12 as stated: when some part has no submission or reports max_score 0,
\* the aggregate max-score is the lab's max_score option if it is present;
\* if it is absent, construction still succeeds and the aggregate is the
\* sum of the reported max scores of the submitted parts.
C12_Original ==
    (sub_pc \notin {"off", "construct"} /\ SomePartIncomplete(response.parts)) =>
       /\ sub_pc = "done"
       /\ response.max_score =
             IF "max_score" \in DOMAIN options THEN options["max_score"]
             ELSE SumMax(response.parts, Submitted(response.parts))

\* C24 as stated: when the platform reports a bad zip location for a part,
\* the Submission is still assembled: BAD_ZIP_URL is set, the files of the
\* other submitted parts are extracted, the aggregates are computed and the
\* Submission is handed back.
C24_Original ==
    (sub_pc \notin {"off", "construct"} /\ BadZipParts(response.parts) # {}) =>
       /\ sub_pc = "done"
       /\ "BAD_ZIP_URL" \in flag
       /\ files_directory = Extracted(response.parts)
       /\ response.score = SumScore(response.parts, Submitted(response.parts))

\* what the claim says happens does happen whenever the aggregate step does
\* not raise: the flag is set and exactly the other submitted parts are
\* extracted
C24_WhenAssembled ==
    (sub_pc = "done" /\ BadZipParts(response.parts) # {}) =>
       /\ "BAD_ZIP_URL" \in flag
       /\ files_directory = Extracted(response.parts)

---------------------------------------------------------------------------
(* Properties of _apply_midterm_mercy *)

MidtermScore(i) ==
    _combined_score(midterm_assignments[i], mm_student, mm_points_out_of)

FinalScore == _combined_score(final_assignments, mm_student, mm_points_out_of)

\* group i has the lowest combined score and no earlier group has it too
FirstLowest(i) ==
    \A j \in 1..Len(midterm_assignments) :
       /\ ~Less(MidtermScore(j), MidtermScore(i))
       /\ j < i => Less(MidtermScore(i), MidtermScore(j))

\* C19: _apply_midterm_mercy changes scores only of assignments in the one
\* midterm group with the lowest combined score (the first such group on
\* ties), and only when that score is strictly below the final's combined
\* score; the other midterm groups and the final group keep their scores.
C19_MercyFrame ==
    [][\A a \in ExamAssignments :
          mm_student'[a] # mm_student[a]
             => \E i \in 1..Len(midterm_assignments) :
                   /\ a \in midterm_assignments[i]
                   /\ FirstLowest(i)
                   /\ Less(MidtermScore(i), FinalScore)]_mm_student

\* C19 witness: every assignment is worth one point and the final stands
\* at full score; the first midterm group was no better than the second
\* and has been raised to full score, the second keeps its lower score
C19_Witness ==
    /\ mm_pc = "done"
    /\ mm_points_out_of = <<1, 1, 1, 1>>
    /\ mm_student = <<ScoreDen, ScoreDen, 1, ScoreDen>>

---------------------------------------------------------------------------
(* The reconciler on rosters with repeated ids *)

\* C29 as stated: for every pair of rosters, also when several gradebook
\* rows carry the same login id or several platform ids reduce to the same
\* gradebook id, the construction of the mapping does not raise: _add_entry
\* is never called for an id that is already matched.
C29_Original == m_pc # "raised"

---------------------------------------------------------------------------
(* The lock during a grading session *)

\* grader g's submission popup for its student is open: it is shown, or a
\* Pair Programming callback started from it is running
InSession(g) ==
    /\ proc[g].kind = "grade"
    /\ proc[g].pc \in {"popup", "pair"} \/ proc[g].second # None

\* C28 as stated: while a grader's submission popup for (S, L) is open the
\* grader's marker for (S, L) exists, whatever is done inside the popup,
\* Pair Programming with any second student included.
C28_Original ==
    \A g \in Graders :
       InSession(g) =>
          get_lock_file_path(g, proc[g].student, proc[g].lab) \in lockDir

---------------------------------------------------------------------------
(* lock and unlock repeated *)

\* C26: lock(S, L) by a grader whose marker for (S, L) exists leaves the set
\* of marker files as it is; unlock(S, L) by a grader whose marker for
\* (S, L) is absent leaves it as it is; and a marker that lock or unlock
\* creates or removes is the calling grader's own.
C26_Idempotent ==
    [][\A g \in Graders, s \in Students, l \in LabArgs :
          /\ (ApiLock(g, s, l) /\ get_lock_file_path(g, s, l) \in lockDir)
                => lockDir' = lockDir
          /\ (ApiUnlock(g, s, l) /\ get_lock_file_path(g, s, l) \notin lockDir)
                => lockDir' = lockDir
          /\ (ApiLock(g, s, l) \/ ApiUnlock(g, s, l))
                => \A f \in (lockDir' \ lockDir) \cup (lockDir \ lockDir') :
                      f[1] = g]_vars

\* C26 witness: ta1 has locked (s1, l1) twice in a row without unlocking,
\* and its one marker is the only file
C26_Witness ==
    /\ Len(lockLog) = 2
    /\ \A i \in 1..2 :
          /\ lockLog[i].lock = "LOCK" /\ lockLog[i].ta = "ta1"
          /\ lockLog[i].name = "s1" /\ lockLog[i].lab = "l1"
    /\ lockDir = {get_lock_file_path("ta1", "s1", "l1")}

---------------------------------------------------------------------------
(* Properties of compile_and_run_code *)

Running == {c \in 1..Len(children) : children[c] = "running"}

\* C27: a child is started only when running_process is None, and then no
\* other child is running; when running_process is not None the call starts
\* nothing and puts the tracked child back to running; when the call returns
\* and the child has exited, running_process is None and RUNNING_CODE is
\* false; when it returns and the child is paused, running_process is still
\* that child.  At no time are two children running.
C27_OneChild ==
    /\ [][/\ Len(children') > Len(children)
               => running_process = NoProcess /\ Running = {}
          /\ (compile_and_run_code /\ running_process # NoProcess)
               => /\ Len(children') = Len(children)
                  /\ running_process' = running_process
                  /\ children[running_process] = "stopped"
                  /\ children'[running_process] = "running"
          /\ (run_pc = "wait" /\ run_pc' = "popup")
               => IF children'[child] = "exited"
                  THEN running_process' = NoProcess /\ ~RUNNING_CODE'
                  ELSE /\ running_process' = child
                       /\ children'[child] = "stopped"]_vars
    /\ [](Cardinality(Running) <= 1)

\* C27 witness: the first child was paused and resumed and has exited, a
\* second child was started afterwards and the call has returned with it
\* paused and still tracked
C27_Witness ==
    /\ run_pc = "popup"
    /\ returned = "True"
    /\ children = <<"exited", "stopped">>
    /\ running_process = 2
    /\ ~RUNNING_CODE

---------------------------------------------------------------------------
(* Properties of the submission search *)

\* the students of the checks that did not meet a connection error
RECURSIVE Processed(_)
Processed(cs) ==
    IF cs = <<>> THEN <<>>
    ELSE IF Head(cs).code = DOWNLOAD_TIMEOUT THEN Processed(Tail(cs))
    ELSE <<Head(cs).student>> \o Processed(Tail(cs))

\* C25: a check that meets a connection error (DOWNLOAD_TIMEOUT) is followed
\* by a check of the same student 5 seconds later; the search does not go
\* on to the next student and does not end on a failed check; and once the
\* connection errors stop the search ends, having processed every student
\* of the roster exactly once, in roster order.
C25_SearchRetry ==
    /\ [](\A i \in 1..(Len(checks) - 1) :
             IF checks[i].code = DOWNLOAD_TIMEOUT
             THEN /\ checks[i + 1].student = checks[i].student
                  /\ checks[i + 1].at = checks[i].at + 5
             ELSE checks[i + 1].student = checks[i].student + 1)
    /\ [](ss_pc = "done" =>
             /\ checks[Len(checks)].code # DOWNLOAD_TIMEOUT
             /\ Processed(checks) = [i \in 1..ss_students |-> i])
    /\ <>(ss_pc = "done")

\* C25 witness: a search through two students has ended; the first
\* student's check failed twice and was repeated 5 and 10 seconds later
C25_Witness ==
    /\ ss_pc = "done"
    /\ ss_students = 2
    /\ Len(checks) = 4
    /\ \A i \in 1..3 : checks[i].student = 1 /\ checks[i].at = 5 * (i - 1)
    /\ checks[1].code = DOWNLOAD_TIMEOUT
    /\ checks[2].code = DOWNLOAD_TIMEOUT
    /\ checks[4].student = 2

---------------------------------------------------------------------------
(* Properties of the grading scheme of attendance_score *)

\* C30 as stated: for every scheme of two or more integers, the last two
\* equal or not, the loop that extends the scheme by its last difference
\* stops, and afterwards no entry of the scheme is negative.
C30_Original ==
    /\ <>(att_pc = "extended")
    /\ [](att_pc = "extended" =>
             \A i \in 1..Len(points_by_classes_missed) :
                points_by_classes_missed[i] >= 0)

\* a turn of the loop that does not bring the last entry down: from then on
\* every turn appends an entry that is no smaller, and the loop has no exit
C30_NoProgress ==
    /\ att_pc = "extend"
    /\ delta <= 0
    /\ Last(points_by_classes_missed) >= 0

====
